---------------------------- MODULE Spec2Model ----------------------------
(***************************************************************************)
(* Echoes OS demo front end: the Next.js API routes (analyze, ask,         *)
(* echoes-process) and the pages that drive them (BlueprintPage, AskPage,  *)
(* UnifiedPage), together with the FastAPI backend they forward to.  The   *)
(* backend is not part of the TypeScript sources; where a property depends *)
(* on it, it is modelled from the written specification and marked so.     *)
(*                                                                         *)
(* Each page or route family is a state machine of its own over its own    *)
(* variables; a specification SpecX runs one of them and leaves the other  *)
(* variables at their initial values.                                      *)
(***************************************************************************)
EXTENDS Integers, Sequences, FiniteSets, TLC

\* ------------------------------------------------------------------ bounds

\* Longest ReversePrompt list the generation provider returns for Stage 1.
MaxPrompts == 2
\* Longest text a caller puts into a request body or query parameter.
MaxTextLen == 2
\* Most chunks the vector store holds.
MaxChunks == 3
\* Longest raw text given to the chunker.
MaxRawLen == 4
\* The attempts the Embedding Gateway makes before it gives up.
MaxAttempts == 3
\* Most searches of the AskPage in flight at once.
MaxInFlight == 2
\* Longest BlueprintStep sequence the workflow analysis returns.
MaxSteps == 2

\* Files dropped on the upload widget beside the page's forms.
MaxFiles == 1

\* Files dropped on the upload widget on its own.
MaxQueued == 2

\* ------------------------------------------------------------------ constants

\* limit and threshold of an ask request that names none; scores in tenths.
DefaultLimit == 5
DefaultThreshold == 3
\* The similarity metric: embeddings 0..EmbedRange-1, equal embeddings
\* score FullScore, each unit of distance costs ScoreStep.
EmbedRange == 3
FullScore == 10
ScoreStep == 5

\* ------------------------------------------------------------------ text

\* Characters of the modelled texts: two kinds of white space, two letters.
Chars == {" ", "\t", "a", "b"}

\* String.prototype.trim() strips white space from both ends.
IsSpace(c) == c \in {" ", "\t"}

RECURSIVE TrimLeft(_)
TrimLeft(s) ==
    IF s = <<>> THEN <<>>
    ELSE IF IsSpace(Head(s)) THEN TrimLeft(Tail(s)) ELSE s

RECURSIVE TrimRight(_)
TrimRight(s) ==
    IF s = <<>> THEN <<>>
    ELSE IF IsSpace(s[Len(s)]) THEN TrimRight(SubSeq(s, 1, Len(s) - 1)) ELSE s

Trim(s) == TrimRight(TrimLeft(s))

\* Every text of at most MaxTextLen characters.
Texts == UNION {[1..n -> Chars] : n \in 0..MaxTextLen}

\* The literal 'dummy value' that handleStepTwo sends as content.
DummyValue == <<"d", "u", "m", "m", "y", " ", "v", "a", "l", "u", "e">>

\* What the user can type into the Step 1 textarea.
PageContents == {<<>>, <<" ">>, <<"a">>}

\* What the user can type into the Step 2 inputs ("" is an empty input).
TitleValues == {"", " ", "t"}
TopicsValues == {"", "x"}
ContextValues == {"", "c"}

\* ------------------------------------------------------------------ state

VARIABLES
    \* BlueprintPage (useState)
    content, stepOnePrompts, stepTwoPrompt, isLoadingStep1, isLoadingStep2,
    title, topics, context,
    \* the alert() dialog the page shows, "" when none; it is modal
    alertBox,
    \* the /api/analyze call of each stage, from fetch to its resumption
    analyzeCall,
    \* a request made to an API entrypoint directly, and its progress
    apiCall,
    \* that request as the client sent it
    apiSent,
    \* what the backend did for the request it answered last
    backendTrace,
    \* the backend's vector store: the set of chunks it holds
    store,
    \* AskPage (useState)
    query, results, isSearching, searchHistory,
    \* the /api/ask calls of handleSearch that have not resumed yet
    searchCalls,
    \* the chunks each writer's upsert call has still to apply, and the
    \* chunk last applied under each id
    upserts, lastUpsert,
    \* the raw text last given to the chunker and the chunks it returned
    rawText, chunked,
    \* whether the client of the call in progress has timed out and dropped it
    callerTimedOut,
    \* the workflow analysis page (app/blueprint/page.tsx, useState) and its /api/analyze call
    workflowContent, blueprint, isAnalyzing, analysisCall,
    \* the upload page (app/upload/page.tsx, useState), the upload widget (components/UploadWidget.tsx) and their /api/upload calls
    urlInput, textInput, uploadTitle, isProcessing, uploadSuccess, uploadAlert, uploadCall, files, widgetProcessing, widgetLoop, widgetCall,
    \* the upload widget's file ids and progress timers, and what it has sent and the user removed
    nextFileId, timers, sentLog, removedIds,
    \* the Unified page (app/unified/page.tsx, useState) and its /api/echoes-process call
    unifiedInput, unifiedResult, unifiedProcessing, activeTab, processCall

blueprintVars ==
    <<content, stepOnePrompts, stepTwoPrompt, isLoadingStep1, isLoadingStep2,
      title, topics, context, alertBox, analyzeCall>>

apiVars == <<apiCall, apiSent, backendTrace, store>>

askPageVars == <<query, results, isSearching, searchHistory, searchCalls>>

writerVars == <<upserts, lastUpsert>>

chunkerVars == <<rawText, chunked>>

callerVars == <<callerTimedOut>>

workflowVars == <<workflowContent, blueprint, isAnalyzing, analysisCall>>

uploadVars == <<urlInput, textInput, uploadTitle, isProcessing, uploadSuccess, uploadAlert, uploadCall, files, widgetProcessing, widgetLoop, widgetCall>>

queueVars == <<nextFileId, timers, sentLog, removedIds>>

unifiedVars == <<unifiedInput, unifiedResult, unifiedProcessing, activeTab, processCall>>

vars == <<blueprintVars, apiVars, askPageVars, writerVars, chunkerVars, callerVars, workflowVars, uploadVars, queueVars, unifiedVars>>

\* What the BlueprintPage and its requests leave alone.
outsideBlueprint == <<apiVars, askPageVars, writerVars, chunkerVars, callerVars, workflowVars, uploadVars, queueVars, unifiedVars>>

\* What the API entrypoints called directly leave alone.
outsideApi == <<blueprintVars, askPageVars, writerVars, chunkerVars, callerVars, workflowVars, uploadVars, queueVars, unifiedVars>>

\* What the writers of the store leave alone, the API's calls apart.
outsideWriters == <<blueprintVars, askPageVars, chunkerVars, callerVars, workflowVars, uploadVars, queueVars, unifiedVars>>

\* What the AskPage and its requests leave alone.
outsideAskPage == <<blueprintVars, apiVars, writerVars, chunkerVars, callerVars, workflowVars, uploadVars, queueVars, unifiedVars>>

\* ------------------------------------------------------------------ HTTP

NoBody == [none |-> TRUE]
NoResp == [none |-> TRUE]
IdleCall == [phase |-> "idle", body |-> NoBody, resp |-> NoResp]

\* Response.ok
ResOk(resp) == resp.status >= 200 /\ resp.status <= 299

\* Mutant of ContentBlank: the check forgets to trim.
ContentBlank_NoTrim(body) ==
    \/ ~body.hasContent
    \/ body.content = <<>>

\* !body.content || !body.content.trim()
ContentBlank(body) ==
    \/ ~body.hasContent
    \/ body.content = <<>>
    \/ Trim(body.content) = <<>>


\* The 400 an entrypoint answers to a request it refuses.
BadRequest(msg) == [status |-> 400, data |-> [error |-> msg]]

\* NextResponse.json(result): the backend's JSON, relayed with status 200.
Relayed(data) == [status |-> 200, data |-> data]

\* ------------------------------------------------- backend: /analyze

\* The ReversePrompt list of length n.
Prompts(n) == [i \in 1..n |-> i]

PromptLists == {Prompts(n) : n \in 0..MaxPrompts}

\* The FinalPrompt synthesised from a Stage 2 body.
FinalPromptOf(body) ==
    [base |-> body.basePrompts, title |-> body.title,
     topics |-> body.topics, context |-> body.context]

\* Stage 2 input with an empty ReversePrompt list or a missing field.
Incomplete(prompts, t, tp, c) ==
    Len(prompts) = 0 \/ t = "" \/ tp = "" \/ c = ""

\* The BlueprintStep sequence of n steps, numbered from 1.
Steps(n) ==
    [i \in 1..n |-> [step |-> i, tool |-> "tool", action |-> "action", note |-> "note"]]

\* What the backend may answer to a forwarded analyze body: the steps of
\* the workflow analysis (a body without step, step 0 here) or the
\* stage's result, or a failure of the generation provider.
BackendAnalyze(body) ==
    IF body.step = 0
    THEN {[ok |-> TRUE, data |-> [blueprint |-> Steps(n)]] : n \in 0..MaxSteps}
         \cup {[ok |-> FALSE, data |-> [detail |-> "provider"]]}
    ELSE IF body.step = 1
    THEN {[ok |-> TRUE, data |-> [prompts |-> ps]] : ps \in PromptLists}
         \cup {[ok |-> FALSE, data |-> [detail |-> "provider"]]}
    ELSE IF Incomplete(body.basePrompts, body.title, body.topics, body.context)
    THEN {[ok |-> FALSE, data |-> [detail |-> "incomplete"]]}
    ELSE {[ok |-> TRUE, data |-> [finalPrompt |-> FinalPromptOf(body)]],
          [ok |-> FALSE, data |-> [detail |-> "provider"]]}

\* --------------------------------------------- /api/analyze route (POST)

\* The 500 of the route's catch block.
AnalyzeFailure ==
    [status |-> 500,
     data |-> [error |-> "Content analysis failed", details |-> "FastAPI error",
               blueprint |-> <<>>, content_type |-> "unknown", confidence |-> 0,
               insights |-> <<>>]]

\* The route up to its await fetch: a body without content is answered
\* 400 at once, any other body is forwarded to the backend unchanged.
AnalyzeReceive(call) ==
    IF ContentBlank(call.body)
    THEN [phase |-> "page", body |-> NoBody,
          resp |-> BadRequest("Content is required for analysis")]
    ELSE [call EXCEPT !.phase = "backend"]

\* The route after its await fetch: a response that is not ok is thrown
\* and caught (500), an ok response is relayed.
AnalyzeRelay(call, answer) ==
    IF ~answer.ok
    THEN [phase |-> "page", body |-> NoBody,
          resp |-> AnalyzeFailure]
    ELSE [phase |-> "page", body |-> NoBody, resp |-> Relayed(answer.data)]

\* AskPage before any search.
AskPageAtRest ==
    /\ query = <<>>
    /\ results = <<>>
    /\ isSearching = FALSE
    /\ searchHistory = <<>>
    /\ searchCalls = [slot \in 1..MaxInFlight |-> IdleCall]

\* The writers of the store before any upsert.
Writers == {"w1", "w2"}
NoChunk == [none |-> TRUE]
WritersAtRest ==
    /\ upserts = [w \in Writers |-> <<>>]
    /\ lastUpsert = [id \in 1..MaxChunks |-> NoChunk]

\* The chunker before its first call.
ChunkerAtRest == rawText = <<>> /\ chunked = <<>>

\* --------------------------------------------------------- BlueprintPage

AlertStep2Required == "All fields are required for Step 2"
AlertStep1Failed == "Error generating prompts: Failed to generate prompts"
AlertStep2Failed == "Error generating final prompt: Failed to generate final prompt"

BlueprintAtRest ==
    /\ content = <<>>
    /\ stepOnePrompts = <<>>
    /\ stepTwoPrompt = <<>>
    /\ isLoadingStep1 = FALSE
    /\ isLoadingStep2 = FALSE
    /\ title = ""
    /\ topics = ""
    /\ context = ""
    /\ alertBox = ""
    /\ analyzeCall = [s \in {1, 2} |-> IdleCall]

NoTrace == [none |-> TRUE]

ApiAtRest == apiCall = IdleCall /\ apiSent = NoBody /\ backendTrace = NoTrace

\* No client has given up on its request.
CallerAtRest == callerTimedOut = FALSE

\* The workflow analysis page before its first analysis.
WorkflowAtRest ==
    /\ workflowContent = <<>>
    /\ blueprint = <<>>
    /\ isAnalyzing = FALSE
    /\ analysisCall = IdleCall

\* The upload page and its widget before the first upload.
NoLoop == [snapshot |-> <<>>, pos |-> 0]

UploadAtRest ==
    /\ urlInput = <<>>
    /\ textInput = <<>>
    /\ uploadTitle = ""
    /\ isProcessing = FALSE
    /\ uploadSuccess = "null"
    /\ uploadAlert = ""
    /\ uploadCall = IdleCall
    /\ files = <<>>
    /\ widgetProcessing = FALSE
    /\ widgetLoop = NoLoop
    /\ widgetCall = IdleCall

\* The upload widget before its first file.
QueueAtRest ==
    /\ nextFileId = 1
    /\ timers = {}
    /\ sentLog = <<>>
    /\ removedIds = {}

\* The Unified page as first rendered: no input, no result, the memories
\* tab active.
NoResult == [none |-> TRUE]
UnifiedAtRest ==
    /\ unifiedInput = <<>>
    /\ unifiedResult = NoResult
    /\ unifiedProcessing = FALSE
    /\ activeTab = "memories"
    /\ processCall = IdleCall

\* Every component before its first request.
AtRest == BlueprintAtRest /\ ApiAtRest /\ AskPageAtRest /\ WritersAtRest /\ ChunkerAtRest /\ CallerAtRest /\ WorkflowAtRest /\ UploadAtRest /\ QueueAtRest /\ UnifiedAtRest

InitBlueprint == AtRest /\ store = {}

\* alert() blocks the page until the user dismisses the dialog.
NoAlertOpen == alertBox = ""

DismissAlert ==
    /\ alertBox # ""
    /\ alertBox' = ""
    /\ UNCHANGED <<outsideBlueprint, content, stepOnePrompts, stepTwoPrompt, isLoadingStep1,
                   isLoadingStep2, title, topics, context, analyzeCall>>

\* The Step 2 card is rendered only while Step 1 has prompts.
StepTwoCardShown == Len(stepOnePrompts) > 0

SetContent(v) ==
    /\ NoAlertOpen
    /\ content' = v
    /\ UNCHANGED <<outsideBlueprint, stepOnePrompts, stepTwoPrompt, isLoadingStep1,
                   isLoadingStep2, title, topics, context, alertBox, analyzeCall>>

SetTitle(v) ==
    /\ NoAlertOpen
    /\ StepTwoCardShown
    /\ title' = v
    /\ UNCHANGED <<outsideBlueprint, content, stepOnePrompts, stepTwoPrompt, isLoadingStep1,
                   isLoadingStep2, topics, context, alertBox, analyzeCall>>

SetTopics(v) ==
    /\ NoAlertOpen
    /\ StepTwoCardShown
    /\ topics' = v
    /\ UNCHANGED <<outsideBlueprint, content, stepOnePrompts, stepTwoPrompt, isLoadingStep1,
                   isLoadingStep2, title, context, alertBox, analyzeCall>>

SetContext(v) ==
    /\ NoAlertOpen
    /\ StepTwoCardShown
    /\ context' = v
    /\ UNCHANGED <<outsideBlueprint, content, stepOnePrompts, stepTwoPrompt, isLoadingStep1,
                   isLoadingStep2, title, topics, alertBox, analyzeCall>>

\* handleStepOne up to its await fetch; the button is disabled while loading.
HandleStepOne ==
    /\ NoAlertOpen
    /\ ~isLoadingStep1
    /\ isLoadingStep1' = TRUE
    /\ analyzeCall' = [analyzeCall EXCEPT ![1] =
           [phase |-> "route",
            body |-> [step |-> 1, hasContent |-> TRUE, content |-> content],
            resp |-> NoResp]]
    /\ UNCHANGED <<outsideBlueprint, content, stepOnePrompts, stepTwoPrompt, isLoadingStep2,
                   title, topics, context, alertBox>>

\* handleStepOne from the fetch's resolution to the end of its finally.
HandleStepOneResume ==
    /\ NoAlertOpen
    /\ analyzeCall[1].phase = "page"
    /\ IF ResOk(analyzeCall[1].resp)
       THEN /\ stepOnePrompts' = analyzeCall[1].resp.data.prompts
            /\ UNCHANGED alertBox
       ELSE /\ alertBox' = AlertStep1Failed
            /\ UNCHANGED stepOnePrompts
    /\ isLoadingStep1' = FALSE
    /\ analyzeCall' = [analyzeCall EXCEPT ![1] = IdleCall]
    /\ UNCHANGED <<outsideBlueprint, content, stepTwoPrompt, isLoadingStep2, title, topics, context>>

\* Mutant of StepTwoRejected: the guard forgets the context field.
StepTwoRejected_NoContext ==
    Len(stepOnePrompts) = 0 \/ title = "" \/ topics = ""

\* The guard at the top of handleStepTwo.
StepTwoRejected ==
    Len(stepOnePrompts) = 0 \/ title = "" \/ topics = "" \/ context = ""

\* handleStepTwo up to its await fetch (or to its early return); the button
\* belongs to the Step 2 card and is disabled while loading.
HandleStepTwo ==
    /\ NoAlertOpen
    /\ StepTwoCardShown
    /\ ~isLoadingStep2
    /\ IF StepTwoRejected
       THEN /\ alertBox' = AlertStep2Required
            /\ UNCHANGED <<isLoadingStep2, analyzeCall>>
       ELSE /\ isLoadingStep2' = TRUE
            /\ analyzeCall' = [analyzeCall EXCEPT ![2] =
                   [phase |-> "route",
                    body |-> [step |-> 2, hasContent |-> TRUE,
                              content |-> DummyValue,
                              basePrompts |-> stepOnePrompts, title |-> title,
                              topics |-> topics, context |-> context],
                    resp |-> NoResp]]
            /\ UNCHANGED alertBox
    /\ UNCHANGED <<outsideBlueprint, content, stepOnePrompts, stepTwoPrompt, isLoadingStep1,
                   title, topics, context>>

\* Mutant of HandleStepTwoResume: the catch block also clears the prompt.
HandleStepTwoResume_ClearsOnError ==
    /\ NoAlertOpen
    /\ analyzeCall[2].phase = "page"
    /\ IF ResOk(analyzeCall[2].resp)
       THEN /\ stepTwoPrompt' = <<analyzeCall[2].resp.data.finalPrompt>>
            /\ UNCHANGED alertBox
       ELSE /\ alertBox' = AlertStep2Failed
            /\ stepTwoPrompt' = <<>>
    /\ isLoadingStep2' = FALSE
    /\ analyzeCall' = [analyzeCall EXCEPT ![2] = IdleCall]
    /\ UNCHANGED <<outsideBlueprint, content, stepOnePrompts, isLoadingStep1, title, topics, context>>

\* handleStepTwo from the fetch's resolution to the end of its finally.
HandleStepTwoResume ==
    /\ NoAlertOpen
    /\ analyzeCall[2].phase = "page"
    /\ IF ResOk(analyzeCall[2].resp)
       THEN /\ stepTwoPrompt' = <<analyzeCall[2].resp.data.finalPrompt>>
            /\ UNCHANGED alertBox
       ELSE /\ alertBox' = AlertStep2Failed
            /\ UNCHANGED stepTwoPrompt
    /\ isLoadingStep2' = FALSE
    /\ analyzeCall' = [analyzeCall EXCEPT ![2] = IdleCall]
    /\ UNCHANGED <<outsideBlueprint, content, stepOnePrompts, isLoadingStep1, title, topics, context>>

\* POST of /api/analyze takes the request of stage s.
AnalyzePOST(s) ==
    /\ analyzeCall[s].phase = "route"
    /\ analyzeCall' = [analyzeCall EXCEPT ![s] = AnalyzeReceive(analyzeCall[s])]
    /\ UNCHANGED <<outsideBlueprint, content, stepOnePrompts, stepTwoPrompt, isLoadingStep1,
                   isLoadingStep2, title, topics, context, alertBox>>

\* The backend answers and POST of /api/analyze resumes with the answer.
AnalyzePOSTResume(s) ==
    /\ analyzeCall[s].phase = "backend"
    /\ \E answer \in BackendAnalyze(analyzeCall[s].body) :
           analyzeCall' = [analyzeCall EXCEPT ![s] = AnalyzeRelay(analyzeCall[s], answer)]
    /\ UNCHANGED <<outsideBlueprint, content, stepOnePrompts, stepTwoPrompt, isLoadingStep1,
                   isLoadingStep2, title, topics, context, alertBox>>

NextBlueprint ==
    \/ \E v \in PageContents : SetContent(v)
    \/ \E v \in TitleValues : SetTitle(v)
    \/ \E v \in TopicsValues : SetTopics(v)
    \/ \E v \in ContextValues : SetContext(v)
    \/ DismissAlert
    \/ HandleStepOne
    \/ HandleStepOneResume
    \/ HandleStepTwo
    \/ HandleStepTwoResume
    \/ \E s \in {1, 2} : AnalyzePOST(s)
    \/ \E s \in {1, 2} : AnalyzePOSTResume(s)

SpecBlueprint == InitBlueprint /\ [][NextBlueprint]_vars

\* ------------------------------------------------- backend: vector store

\* Most chunks the store holds.
ChunkIds == 1..MaxChunks

\* The embedding provider, text -> vector: here a vector of one dimension,
\* the letters of the text summed (a = 1, b = 2, other letters 0) modulo
\* EmbedRange.
LetterValue(c) == CASE c = "a" -> 1 [] c = "b" -> 2 [] OTHER -> 0

RECURSIVE LetterSum(_)
LetterSum(text) ==
    IF text = <<>> THEN 0 ELSE LetterValue(Head(text)) + LetterSum(Tail(text))

Embed(text) == LetterSum(text) % EmbedRange

\* The texts of the chunks ingested, one for each embedding.
ChunkTexts == {<<"a">>, <<"b">>, <<"a", "b">>}

\* The times at which chunks were created.
CreatedAts == {1, 2}

\* A chunk as ingestion stores it: embedded once, from its text.
Chunk(id, text, createdAt) ==
    [id |-> id, text |-> text, embedding |-> Embed(text), createdAt |-> createdAt]

\* What the store may hold under one id: nothing, or a chunk's text and time.
Slots == {<<>>} \cup (ChunkTexts \X CreatedAts)

\* Every store with at most one chunk under each id.
Stores ==
    {{Chunk(id, f[id][1], f[id][2]) : id \in {i \in ChunkIds : f[i] # <<>>}} :
        f \in [ChunkIds -> Slots]}

Abs(n) == IF n < 0 THEN -n ELSE n

\* Similarity of two embeddings in tenths, 0..10: a monotonic transform of
\* their distance.
Score(e1, e2) ==
    LET s == FullScore - ScoreStep * Abs(e1 - e2) IN IF s < 0 THEN 0 ELSE s

\* c ranks strictly before d for a query embedded as qe: higher score
\* first, ties broken by most recent createdAt (then by id, for a total order).
Before(c, d, qe) ==
    \/ Score(qe, c.embedding) > Score(qe, d.embedding)
    \/ /\ Score(qe, c.embedding) = Score(qe, d.embedding)
       /\ c.createdAt > d.createdAt
    \/ /\ Score(qe, c.embedding) = Score(qe, d.embedding)
       /\ c.createdAt = d.createdAt
       /\ c.id < d.id

\* A chunk as a SearchResult of the query embedded as qe.
ResultOf(c, qe) ==
    [id |-> c.id, content |-> c.text, timestamp |-> c.createdAt,
     score |-> Score(qe, c.embedding)]

RECURSIVE Rank(_, _)
Rank(chunks, qe) ==
    IF chunks = {} THEN <<>>
    ELSE LET best == CHOOSE c \in chunks : \A d \in chunks : ~Before(d, c, qe)
         IN  <<ResultOf(best, qe)>> \o Rank(chunks \ {best}, qe)

\* The first n elements of a sequence.
Take(seq, n) == SubSeq(seq, 1, IF n < Len(seq) THEN n ELSE Len(seq))

\* search(queryVector, limit, scoreThreshold) over the chunks held.
Search(chunks, qe, limit, threshold) ==
    Take(Rank({c \in chunks : Score(qe, c.embedding) >= threshold}, qe), limit)

\* The backend reads limit and threshold from their strings.
ParseLimit(str) ==
    CASE str = "1" -> 1 [] str = "2" -> 2 [] str = "5" -> DefaultLimit

ParseThreshold(str) ==
    CASE str = "0.3" -> DefaultThreshold [] str = "0.6" -> 6

\* All white space, the empty text included.
IsBlankText(text) == \A i \in 1..Len(text) : IsSpace(text[i])

\* ask(queryText, limit, threshold): EmptyQueryError for a blank query, else
\* the search's results or a provider failure.
Ask(queryText, limit, threshold, chunks) ==
    IF IsBlankText(queryText)
    THEN {[ok |-> FALSE, data |-> [detail |-> "empty query"]]}
    ELSE {[ok |-> TRUE,
           data |-> LET found == Search(chunks, Embed(queryText), limit, threshold)
                    IN  [results |-> found, total_found |-> Len(found)]],
          [ok |-> FALSE, data |-> [detail |-> "provider"]]}

\* What the backend may answer to a forwarded ask request.  GET carries
\* query, limit and threshold as strings; a POST body may lack any of them.
BackendAsk(req, chunks) ==
    IF req.entry = "askGET"
    THEN Ask(req.query, ParseLimit(req.limit), ParseThreshold(req.threshold), chunks)
    ELSE IF ~req.query.given
    THEN {[ok |-> FALSE, data |-> [detail |-> "empty query"]]}
    ELSE Ask(req.query.value,
             IF req.limit.given THEN ParseLimit(req.limit.value) ELSE DefaultLimit,
             IF req.threshold.given THEN ParseThreshold(req.threshold.value)
             ELSE DefaultThreshold,
             chunks)

\* ------------------------------------------------- /api/ask route

\* A query parameter or body field that the request does not carry.
Missing == [given |-> FALSE]
Given(v) == [given |-> TRUE, value |-> v]

\* Mutant of OrDefault: the fallback replaces a supplied value too.
OrDefault_AlwaysFallback(param, fallback) == fallback

\* searchParams.get(name) || fallback, for a parameter holding a string.
OrDefault(param, fallback) ==
    IF param.given /\ param.value # "" THEN param.value ELSE fallback

\* !query, for searchParams.get('query'): null or the empty string.
QueryAbsent(param) == ~param.given \/ param.value = <<>>

\* The 500 of the ask routes' catch blocks.
AskFailure ==
    [status |-> 500,
     data |-> [error |-> "Memory search failed", details |-> "FastAPI error",
               results |-> <<>>, total_found |-> 0, search_time_ms |-> 0]]

\* Mutant of AskGETReceive: the limit of the request is not passed on.
AskGETReceive_LimitNotForwarded(call) ==
    IF QueryAbsent(call.body.query)
    THEN [phase |-> "page", body |-> NoBody,
          resp |-> BadRequest("Query parameter is required")]
    ELSE [call EXCEPT !.phase = "backend",
                      !.body = [entry |-> "askGET",
                                query |-> call.body.query.value,
                                limit |-> "5",
                                threshold |-> OrDefault(call.body.threshold, "0.3")]]

\* GET up to its await fetch: without a query 400, else the request is
\* forwarded with limit and threshold defaulted.
AskGETReceive(call) ==
    IF QueryAbsent(call.body.query)
    THEN [phase |-> "page", body |-> NoBody,
          resp |-> BadRequest("Query parameter is required")]
    ELSE [call EXCEPT !.phase = "backend",
                      !.body = [entry |-> "askGET",
                                query |-> call.body.query.value,
                                limit |-> OrDefault(call.body.limit, "5"),
                                threshold |-> OrDefault(call.body.threshold, "0.3")]]

\* POST up to its await fetch: the body is forwarded as it is.
AskPOSTReceive(call) == [call EXCEPT !.phase = "backend"]

\* GET and POST after their await fetch.
AskRelay(call, answer) ==
    IF ~answer.ok
    THEN [phase |-> "page", body |-> NoBody, resp |-> AskFailure]
    ELSE [phase |-> "page", body |-> NoBody, resp |-> Relayed(answer.data)]

\* ------------------------------------------------- backend: /echoes-process

ContentTypes == {"query", "content", "mixed"}

\* Confidence of a classification, in tenths.
Confidences == {2, 9}

\* Mutant of Invoked: every classification invokes both paths.
Invoked_AlwaysBoth(contentType) == {"retrieval", "blueprint"}

\* Routing policy: the paths a classification invokes.
Invoked(contentType) ==
    CASE contentType = "query" -> {"retrieval"}
      [] contentType = "content" -> {"blueprint"}
      [] contentType = "mixed" -> {"retrieval", "blueprint"}

\* The insight notes of the paths that failed, retrieval first.
DegradationNotes(failed) ==
    (IF "retrieval" \in failed THEN <<"retrieval failed">> ELSE <<>>)
    \o (IF "blueprint" \in failed THEN <<"blueprint failed">> ELSE <<>>)

\* Merge policy: the response for a classification, given the paths that
\* failed and what the other paths produced.
Merge(contentType, confidence, failed, memories, steps) ==
    [ok |-> TRUE,
     data |-> [memories |-> IF "retrieval" \in Invoked(contentType) \ failed
                            THEN memories ELSE <<>>,
               blueprint |-> IF "blueprint" \in Invoked(contentType) \ failed
                             THEN steps ELSE <<>>,
               analysis |-> [contentType |-> contentType, confidence |-> confidence,
                             insights |-> DegradationNotes(failed)]],
     trace |-> [classified |-> contentType, invoked |-> Invoked(contentType),
                failed |-> failed, memories |-> memories, steps |-> steps]]

\* What the backend may answer to a forwarded process body: a validation
\* error, a failure of the classification, or the merged response.
BackendProcess(body, chunks) ==
    IF ContentBlank(body)
    THEN {[ok |-> FALSE, data |-> [detail |-> "validation"],
           trace |-> [classified |-> "invalid"]]}
    ELSE {[ok |-> FALSE, data |-> [detail |-> "classification"],
           trace |-> [classified |-> "failed"]]}
         \cup UNION {{Merge(ct, cf, failed,
                             Search(chunks, Embed(body.content), DefaultLimit,
                                    DefaultThreshold),
                             Steps(n)) :
                         cf \in Confidences, failed \in SUBSET Invoked(ct),
                         n \in 0..MaxSteps} :
                     ct \in ContentTypes}

\* ------------------------------------------------- /api/echoes-process route

\* The 500 of the route's catch block.
ProcessFailure ==
    [status |-> 500,
     data |-> [error |-> "Echoes processing failed", details |-> "FastAPI error",
               memories |-> <<>>, blueprint |-> <<>>,
               analysis |-> [contentType |-> "unknown", confidence |-> 0,
                             insights |-> <<>>]]]

\* POST up to its await fetch.
ProcessReceive(call) ==
    IF ContentBlank(call.body)
    THEN [phase |-> "page", body |-> NoBody,
          resp |-> BadRequest("Content is required for processing")]
    ELSE [call EXCEPT !.phase = "backend"]

\* Mutant of ProcessRelay: a response with a degradation note is answered
\* as a failure.
ProcessRelay_FailsOnDegradation(call, answer) ==
    IF ~answer.ok \/ answer.data.analysis.insights # <<>>
    THEN [phase |-> "page", body |-> NoBody, resp |-> ProcessFailure]
    ELSE [phase |-> "page", body |-> NoBody, resp |-> Relayed(answer.data)]

\* POST after its await fetch.
ProcessRelay(call, answer) ==
    IF ~answer.ok
    THEN [phase |-> "page", body |-> NoBody, resp |-> ProcessFailure]
    ELSE [phase |-> "page", body |-> NoBody, resp |-> Relayed(answer.data)]

\* ------------------------------------------------- /api/generate route

\* What the backend's /generate may answer: a generation, an error status
\* with the provider's text, or nothing (the fetch rejects).
BackendGenerate(body) ==
    {[ok |-> TRUE, reached |-> TRUE, status |-> 200, data |-> [output |-> "generated"]],
     [ok |-> FALSE, reached |-> TRUE, status |-> 502, data |-> "provider stack trace"],
     [ok |-> FALSE, reached |-> FALSE, status |-> 0, data |-> ""]}

\* POST up to its await fetch: only the prompt is forwarded.
GenerateReceive(call) ==
    [call EXCEPT !.phase = "backend",
                 !.body = [entry |-> "generate", hasPrompt |-> call.body.hasPrompt,
                           prompt |-> call.body.prompt]]

\* POST after its await fetch.
GenerateRelay(call, answer) ==
    IF ~answer.reached
    THEN [phase |-> "page", body |-> NoBody,
          resp |-> [status |-> 500, data |-> [error |-> "Server error"]]]
    ELSE IF ~answer.ok
    THEN [phase |-> "page", body |-> NoBody,
          resp |-> [status |-> answer.status, data |-> [error |-> answer.data]]]
    ELSE [phase |-> "page", body |-> NoBody, resp |-> Relayed(answer.data)]

\* ------------------------------------------------- /api/upload route

\* The backend endpoint an upload is forwarded to.
UploadEndpoint(body) ==
    IF body.multipart THEN "/upload"
    ELSE IF body.type = "text" THEN "/upload/text"
    ELSE IF body.type = "url" THEN "/upload/url"
    ELSE "/upload"

\* What the backend may answer to a forwarded upload: the ingestion
\* succeeded under the given title, or it failed.
BackendUpload(body) ==
    {[ok |-> TRUE, data |-> [success |-> TRUE, title |-> body.title]],
     [ok |-> FALSE, data |-> [detail |-> "ingestion"]]}

\* The 500 of the route's catch block.
UploadFailure ==
    [status |-> 500, data |-> [error |-> "Upload failed", details |-> "FastAPI error"]]

\* POST up to its await fetch.
UploadReceive(call) ==
    [call EXCEPT !.phase = "backend", !.body.endpoint = UploadEndpoint(call.body)]

\* POST after its await fetch.
UploadRelay(call, answer) ==
    IF ~answer.ok
    THEN [phase |-> "page", body |-> NoBody, resp |-> UploadFailure]
    ELSE [phase |-> "page", body |-> NoBody, resp |-> Relayed(answer.data)]

\* ------------------------------------------------- API entrypoints, called directly

\* The entrypoint's code up to its await fetch.
Receive(call) ==
    CASE call.body.entry = "analyze" -> AnalyzeReceive(call)
      [] call.body.entry = "askGET" -> AskGETReceive(call)
      [] call.body.entry = "askPOST" -> AskPOSTReceive(call)
      [] call.body.entry = "process" -> ProcessReceive(call)
      [] call.body.entry = "generate" -> GenerateReceive(call)
      [] call.body.entry = "upload" -> UploadReceive(call)

\* What the backend may answer to the forwarded request.
BackendAnswers(call) ==
    CASE call.body.entry = "analyze" -> BackendAnalyze(call.body)
      [] call.body.entry \in {"askGET", "askPOST"} -> BackendAsk(call.body, store)
      [] call.body.entry = "process" -> BackendProcess(call.body, store)
      [] call.body.entry = "generate" -> BackendGenerate(call.body)
      [] call.body.entry = "upload" -> BackendUpload(call.body)

\* The entrypoint's code after its await fetch.
Relay(call, answer) ==
    CASE call.body.entry = "analyze" -> AnalyzeRelay(call, answer)
      [] call.body.entry \in {"askGET", "askPOST"} -> AskRelay(call, answer)
      [] call.body.entry = "process" -> ProcessRelay(call, answer)
      [] call.body.entry = "generate" -> GenerateRelay(call, answer)
      [] call.body.entry = "upload" -> UploadRelay(call, answer)

\* What the backend did for an answer, where the answer records it.
TraceOf(answer) == IF "trace" \in DOMAIN answer THEN answer.trace ELSE NoTrace

\* A client sends a request to an entrypoint.
ApiRequest(body) ==
    /\ apiCall.phase = "idle"
    /\ apiCall' = [phase |-> "route", body |-> body, resp |-> NoResp]
    /\ apiSent' = body
    /\ backendTrace' = NoTrace
    /\ UNCHANGED <<outsideApi, store>>

\* The entrypoint takes the request.
ApiReceive ==
    /\ apiCall.phase = "route"
    /\ apiCall' = Receive(apiCall)
    /\ UNCHANGED <<outsideApi, apiSent, backendTrace, store>>

\* The backend answers and the entrypoint resumes with the answer.
ApiResume ==
    /\ apiCall.phase = "backend"
    /\ \E answer \in BackendAnswers(apiCall) :
           /\ apiCall' = Relay(apiCall, answer)
           /\ backendTrace' = TraceOf(answer)
    /\ UNCHANGED <<outsideApi, apiSent, store>>

\* The client takes the response.
ApiDone ==
    /\ apiCall.phase = "page"
    /\ ~callerTimedOut
    /\ apiCall' = IdleCall
    /\ apiSent' = NoBody
    /\ backendTrace' = NoTrace
    /\ UNCHANGED <<outsideApi, store>>

\* Requests with any text, to see what each entrypoint lets through.
AnalyzeBodies ==
    {[entry |-> "analyze", step |-> st, hasContent |-> h, content |-> t] :
        st \in {0, 1}, h \in BOOLEAN, t \in Texts}

ProcessBodies ==
    {[entry |-> "process", hasContent |-> h, content |-> t] :
        h \in BOOLEAN, t \in Texts}

AskGETQueries ==
    {[entry |-> "askGET", query |-> q, limit |-> Missing, threshold |-> Missing] :
        q \in {Missing} \cup {Given(t) : t \in Texts}}

AskPOSTQueries ==
    {[entry |-> "askPOST", query |-> q, limit |-> Missing, threshold |-> Missing] :
        q \in {Missing} \cup {Given(t) : t \in Texts}}

GenerateBodies ==
    {[entry |-> "generate", hasPrompt |-> h, prompt |-> t, extra |-> "x"] :
        h \in BOOLEAN, t \in {<<>>, <<"a">>}}

\* Uploads as multipart form data (a file) and as JSON (text, a URL, or
\* a body of any other type).
UploadBodies ==
    {[entry |-> "upload", multipart |-> m, type |-> ty, content |-> t, title |-> ti,
      endpoint |-> ""] :
        m \in BOOLEAN, ty \in {"text", "url", "file"}, t \in {<<>>, <<"a">>},
        ti \in TitleValues}

InitValidation == AtRest /\ store = {}

NextValidation ==
    \/ \E body \in AnalyzeBodies \cup ProcessBodies : ApiRequest(body)
    \/ \E body \in AskGETQueries \cup AskPOSTQueries : ApiRequest(body)
    \/ \E body \in GenerateBodies : ApiRequest(body)
    \/ \E body \in UploadBodies : ApiRequest(body)
    \/ ApiReceive
    \/ ApiResume
    \/ ApiDone

SpecValidation == InitValidation /\ [][NextValidation]_vars

\* ------------------------------------------------- search requests

\* Queries that embed to each of the embeddings.
SearchQueries == ChunkTexts

\* limit as GET may carry it: absent, empty, or a number's string.
LimitParams == {Missing, Given(""), Given("1"), Given("2")}

ThresholdParams == {Missing, Given("0.6")}

AskGETRequests ==
    {[entry |-> "askGET", query |-> Given(q), limit |-> l, threshold |-> t] :
        q \in SearchQueries, l \in LimitParams, t \in ThresholdParams}

AskPOSTRequests ==
    {[entry |-> "askPOST", query |-> Given(q), limit |-> l, threshold |-> t] :
        q \in SearchQueries, l \in LimitParams \ {Given("")}, t \in ThresholdParams}

InitSearch == AtRest /\ store \in Stores

NextSearch ==
    \/ \E body \in AskGETRequests \cup AskPOSTRequests : ApiRequest(body)
    \/ ApiReceive
    \/ ApiResume
    \/ ApiDone

SpecSearch == InitSearch /\ [][NextSearch]_vars

\* --------------------------------------------------------- AskPage

\* What the user can type into the search input.
PageQueries == {<<>>, <<" ">>, <<"a">>, <<"b", " ">>}

\* The suggestion buttons ("Try These Questions").
SuggestedQueries == {<<"a">>, <<"a", "b">>}

\* The text of the chunk ingested under id.
TextOfId(id) ==
    CASE id % 3 = 1 -> <<"a">> [] id % 3 = 2 -> <<"b">> [] OTHER -> <<"a", "b">>

\* The stores the page is run against: empty, and full with the chunks
\* created at one time or at alternating times.
PageStores ==
    {{}, {Chunk(id, TextOfId(id), 1) : id \in ChunkIds},
     {Chunk(id, TextOfId(id), 1 + (id % 2)) : id \in ChunkIds}}

\* Mutant of ResultsOf: the page takes the results in reverse order.
ResultsOf_Reversed(data) ==
    IF "results" \in DOMAIN data
    THEN [i \in 1..Len(data.results) |-> data.results[Len(data.results) + 1 - i]]
    ELSE <<>>

\* data.results || []
ResultsOf(data) == IF "results" \in DOMAIN data THEN data.results ELSE <<>>

\* prev.filter(q => q !== searchQuery)
RECURSIVE Without(_, _)
Without(seq, q) ==
    IF seq = <<>> THEN <<>>
    ELSE IF Head(seq) = q THEN Without(Tail(seq), q)
    ELSE <<Head(seq)>> \o Without(Tail(seq), q)

\* The history with the query in front and nothing cut off.
PushHistory_Uncut(prev, searchQuery) == <<searchQuery>> \o Without(prev, searchQuery)

\* [searchQuery, ...prev.filter(q => q !== searchQuery)].slice(0, 5)
PushHistory(prev, searchQuery) == Take(<<searchQuery>> \o Without(prev, searchQuery), 5)

\* The lowest slot with no call in flight (0 when there is none).
FreeSlot ==
    IF \E slot \in 1..MaxInFlight : searchCalls[slot].phase = "idle"
    THEN CHOOSE slot \in 1..MaxInFlight :
            /\ searchCalls[slot].phase = "idle"
            /\ \A other \in 1..(slot - 1) : searchCalls[other].phase # "idle"
    ELSE 0

\* handleSearch(searchQuery) up to its await fetch, or to its early return.
HandleSearch(searchQuery) ==
    IF Trim(searchQuery) = <<>>
    THEN UNCHANGED <<query, results, isSearching, searchHistory, searchCalls>>
    ELSE /\ FreeSlot # 0
         /\ isSearching' = TRUE
         /\ query' = searchQuery
         /\ searchCalls' = [searchCalls EXCEPT ![FreeSlot] =
                [phase |-> "route",
                 body |-> [entry |-> "askGET", query |-> Given(searchQuery),
                           limit |-> Missing, threshold |-> Missing],
                 resp |-> NoResp]]
         /\ UNCHANGED <<results, searchHistory>>

\* The input's onChange; the input is disabled while searching.
TypeQuery(v) ==
    /\ ~isSearching
    /\ query' = v
    /\ UNCHANGED <<results, isSearching, searchHistory, searchCalls>>
    /\ UNCHANGED outsideAskPage

\* SearchInput's handleSubmit.
SubmitSearch ==
    /\ Trim(query) # <<>>
    /\ ~isSearching
    /\ HandleSearch(Trim(query))
    /\ UNCHANGED outsideAskPage

\* A "Recent Searches" button.
SearchFromHistory(i) ==
    /\ i \in 1..Len(searchHistory)
    /\ HandleSearch(searchHistory[i])
    /\ UNCHANGED outsideAskPage

\* A suggestion button; the suggestions are shown while query is empty.
SearchSuggestion(suggestion) ==
    /\ query = <<>>
    /\ HandleSearch(suggestion)
    /\ UNCHANGED outsideAskPage

\* The "Try Another Search" button of the "No Results Found" card.
TryAnotherSearch ==
    /\ Len(results) = 0 /\ query # <<>> /\ ~isSearching
    /\ query' = <<>>
    /\ UNCHANGED <<results, isSearching, searchHistory, searchCalls>>
    /\ UNCHANGED outsideAskPage

\* GET of /api/ask serves the call of a slot: the route's code to its
\* fetch, the backend's answer, the route's code after it.
AskGETServe(slot) ==
    /\ searchCalls[slot].phase = "route"
    /\ LET received == AskGETReceive(searchCalls[slot]) IN
         IF received.phase = "page"
         THEN searchCalls' = [searchCalls EXCEPT ![slot] =
                  [received EXCEPT !.body = searchCalls[slot].body]]
         ELSE \E answer \in BackendAsk(received.body, store) :
                  searchCalls' = [searchCalls EXCEPT ![slot] =
                      [AskRelay(received, answer) EXCEPT !.body = searchCalls[slot].body]]
    /\ UNCHANGED <<query, results, isSearching, searchHistory>>
    /\ UNCHANGED outsideAskPage

\* The fetch of a slot's call rejects: the request or its response is lost.
SearchRequestLost(slot) ==
    /\ searchCalls[slot].phase \in {"route", "page"}
    /\ searchCalls' = [searchCalls EXCEPT ![slot].phase = "rejected", ![slot].resp = NoResp]
    /\ UNCHANGED <<query, results, isSearching, searchHistory>>
    /\ UNCHANGED outsideAskPage

\* handleSearch from the fetch's settling to the end of its finally.
HandleSearchResume(slot) ==
    /\ searchCalls[slot].phase \in {"page", "rejected"}
    /\ IF searchCalls[slot].phase = "page"
       THEN /\ results' = ResultsOf(searchCalls[slot].resp.data)
            /\ searchHistory' = PushHistory(searchHistory, searchCalls[slot].body.query.value)
       ELSE /\ results' = <<>>
            /\ UNCHANGED searchHistory
    /\ isSearching' = FALSE
    /\ searchCalls' = [searchCalls EXCEPT ![slot] = IdleCall]
    /\ UNCHANGED query
    /\ UNCHANGED outsideAskPage

InitAskPage == AtRest /\ store \in PageStores

NextAskPage ==
    \/ \E v \in PageQueries : TypeQuery(v)
    \/ SubmitSearch
    \/ \E i \in 1..5 : SearchFromHistory(i)
    \/ \E suggestion \in SuggestedQueries : SearchSuggestion(suggestion)
    \/ TryAnotherSearch
    \/ \E slot \in 1..MaxInFlight : AskGETServe(slot)
    \/ \E slot \in 1..MaxInFlight : SearchRequestLost(slot)
    \/ \E slot \in 1..MaxInFlight : HandleSearchResume(slot)

SpecAskPage == InitAskPage /\ [][NextAskPage]_vars

\* ------------------------------------------- claims on the two stages

\* A Stage 2 request has left the page and its response has not been handled.
Stage2Pending == isLoadingStep2
\* A Stage 1 request has left the page and its response has not been handled.
Stage1Pending == isLoadingStep1

\* C1: Stage 2 becomes pending only from Stage1Complete: at the step that
\* issues the Stage 2 request no Stage 1 call is pending and the held
\* ReversePrompt list is non-empty.
C1_Stage2OnlyFromStage1Complete ==
    [][(~Stage2Pending /\ Stage2Pending')
          => (~Stage1Pending /\ Len(stepOnePrompts) > 0)]_vars

\* A step of handleStepTwo taken with incomplete Stage 2 input.
IncompleteStepTwo ==
    HandleStepTwo /\ Incomplete(stepOnePrompts, title, topics, context)

\* C2: handleStepTwo invoked with an empty ReversePrompt list or with title,
\* topics or context missing raises the incomplete-input alert, sends no
\* request and leaves the held FinalPrompt unchanged; hence no Stage 2
\* request in flight ever carries incomplete input.
C2_IncompleteStage2Rejected ==
    /\ [][IncompleteStepTwo
            => /\ alertBox' = AlertStep2Required
               /\ analyzeCall' = analyzeCall
               /\ stepTwoPrompt' = stepTwoPrompt
               /\ ~isLoadingStep2']_vars
    /\ [](analyzeCall[2].phase \in {"route", "backend"}
            => ~Incomplete(analyzeCall[2].body.basePrompts, analyzeCall[2].body.title,
                           analyzeCall[2].body.topics, analyzeCall[2].body.context))

\* C2 witness: Stage 2 was rejected for a missing context while a FinalPrompt
\* of an earlier Stage 2 is held.
C2_Witness ==
    /\ alertBox = AlertStep2Required
    /\ context = ""
    /\ stepTwoPrompt # <<>>
    /\ analyzeCall[2].phase = "idle"

\* The page handles a failed response of stage s.
StageFails(s) ==
    /\ analyzeCall[s].phase = "page"
    /\ ~ResOk(analyzeCall[s].resp)
    /\ analyzeCall'[s].phase = "idle"

\* C3: a failed Stage 1 or Stage 2 call leaves the ReversePrompt list and the
\* FinalPrompt (and the Stage 2 inputs) as they were and resets the loading
\* flag of the failed stage; whenever a stage is not loading and its inputs
\* are in place it can be started again.
C3_FailureKeepsLastCompletedState ==
    /\ [][(StageFails(1)
             => /\ stepOnePrompts' = stepOnePrompts
                /\ stepTwoPrompt' = stepTwoPrompt
                /\ ~isLoadingStep1')
          /\ (StageFails(2)
             => /\ stepOnePrompts' = stepOnePrompts
                /\ stepTwoPrompt' = stepTwoPrompt
                /\ <<title', topics', context'>> = <<title, topics, context>>
                /\ ~isLoadingStep2')]_vars
    /\ []((NoAlertOpen /\ ~isLoadingStep1) => ENABLED HandleStepOne)
    /\ []((NoAlertOpen /\ ~isLoadingStep2 /\ ~StepTwoRejected)
            => ENABLED (HandleStepTwo /\ isLoadingStep2'))

\* C3 witness: a Stage 2 call has just failed while a ReversePrompt list and
\* an earlier FinalPrompt are held.
C3_Witness ==
    /\ alertBox = AlertStep2Failed
    /\ Len(stepOnePrompts) > 0
    /\ stepTwoPrompt # <<>>
    /\ ~isLoadingStep2

\* ------------------------------------------- claims on input validation

\* The entrypoints whose request carries content.
ContentEntries == {"analyze", "process"}

\* The entrypoint holds a request whose content is missing, empty or all
\* white space.
BlankContentAtRoute ==
    /\ apiCall.phase = "route"
    /\ apiCall.body.entry \in ContentEntries
    /\ (~apiCall.body.hasContent \/ IsBlankText(apiCall.body.content))

\* C4: the analyze and echoes-process entrypoints answer a request whose
\* content is empty or white space only (or missing) with the 400
\* validation error, and no such request is ever at the backend.
C4_BlankContentRejected ==
    /\ [][(BlankContentAtRoute /\ apiCall' # apiCall)
            => (apiCall'.phase = "page" /\ apiCall'.resp.status = 400)]_vars
    /\ []((apiCall.phase = "backend" /\ apiCall.body.entry \in ContentEntries)
            => (apiCall.body.hasContent /\ ~IsBlankText(apiCall.body.content)))

\* C4 witness: echoes-process has answered 400 to a body of white space.
C4_Witness ==
    /\ apiCall.phase = "page"
    /\ apiSent.entry = "process"
    /\ apiSent.hasContent
    /\ apiSent.content = <<" ", "\t">>
    /\ apiCall.resp.status = 400

\* The query text of an ask request as the backend receives it.
QueryTextOf(body) ==
    IF body.entry = "askGET" THEN body.query
    ELSE IF body.query.given THEN body.query.value ELSE <<>>

\* C5: no ask request whose query is blank after trimming is forwarded to
\* the backend, on GET and on POST.
C5_BlankQueryNeverForwarded ==
    (apiCall.phase = "backend" /\ apiCall.body.entry \in {"askGET", "askPOST"})
        => ~IsBlankText(QueryTextOf(apiCall.body))

\* ------------------------------------------- claims on search results

\* The limit L and threshold T an ask request asks for: those it names,
\* else 5 and 0.3.
RequestedLimit(sent) ==
    IF sent.limit.given /\ sent.limit.value # ""
    THEN ParseLimit(sent.limit.value) ELSE 5

RequestedThreshold(sent) ==
    IF sent.threshold.given /\ sent.threshold.value # ""
    THEN ParseThreshold(sent.threshold.value) ELSE 3

\* The chunks held whose score for the request's query clears its threshold.
Clearing(sent) ==
    {c \in store : Score(Embed(sent.query.value), c.embedding) >= RequestedThreshold(sent)}

\* An ask request has been answered with a result list.
AskDelivered ==
    /\ apiCall.phase = "page"
    /\ apiSent.entry \in {"askGET", "askPOST"}
    /\ "results" \in DOMAIN apiCall.resp.data

AskGETTakes(slot) ==
    /\ searchCalls[slot].phase = "route"
    /\ LET received == AskGETReceive(searchCalls[slot]) IN
         searchCalls' = [searchCalls EXCEPT ![slot] =
            IF received.phase = "page"
            THEN [received EXCEPT !.body = searchCalls[slot].body]
            ELSE [received EXCEPT !.resp = [sent |-> searchCalls[slot].body,
                                            attempts |-> 0]]]
    /\ UNCHANGED <<query, results, isSearching, searchHistory>>
    /\ UNCHANGED outsideAskPage

\* The Embedding Gateway calls the provider for the query of a slot's
\* search: on success the backend searches and the route relays the
\* answer; on failure the gateway tries again, and after MaxAttempts
\* failures the backend answers with the error, which the route relays.
EmbedAttempt(slot, succeeds) ==
    /\ searchCalls[slot].phase = "backend"
    /\ searchCalls[slot].resp.attempts < MaxAttempts
    /\ IF ~succeeds /\ searchCalls[slot].resp.attempts + 1 < MaxAttempts
       THEN searchCalls' = [searchCalls EXCEPT ![slot].resp.attempts = @ + 1]
       ELSE \E answer \in {a \in BackendAsk(searchCalls[slot].body, store) :
                              a.ok = succeeds} :
                searchCalls' = [searchCalls EXCEPT ![slot] =
                    [AskRelay(searchCalls[slot], answer)
                        EXCEPT !.body = searchCalls[slot].resp.sent]]
    /\ UNCHANGED <<query, results, isSearching, searchHistory>>
    /\ UNCHANGED outsideAskPage

NextRetry ==
    \/ \E v \in PageQueries : TypeQuery(v)
    \/ SubmitSearch
    \/ \E i \in 1..5 : SearchFromHistory(i)
    \/ \E suggestion \in SuggestedQueries : SearchSuggestion(suggestion)
    \/ TryAnotherSearch
    \/ \E slot \in 1..MaxInFlight : AskGETTakes(slot)
    \/ \E slot \in 1..MaxInFlight, succeeds \in BOOLEAN : EmbedAttempt(slot, succeeds)
    \/ \E slot \in 1..MaxInFlight : SearchRequestLost(slot)
    \/ \E slot \in 1..MaxInFlight : HandleSearchResume(slot)

SpecRetry == InitAskPage /\ [][NextRetry]_vars

\* ------------------------------------------------- AskPage with a full history

\* Five earlier searches, most recent first.
EarlierSearches == <<<<"a">>, <<"b">>, <<"a", "a">>, <<"a", "b">>, <<"b", "a">>>>

\* What the user types: a query not searched before.
HistoryQueries == {<<"b", "b">>}

\* The Recent Searches button the user clicks: the second.
HistoryButtons == {2}

\* The page with no search in flight, before any search and after the
\* earlier searches.
InitHistory ==
    /\ BlueprintAtRest /\ ApiAtRest /\ WritersAtRest /\ ChunkerAtRest /\ CallerAtRest
    /\ WorkflowAtRest /\ UploadAtRest /\ QueueAtRest /\ UnifiedAtRest
    /\ store = {}
    /\ query = <<>>
    /\ results = <<>>
    /\ isSearching = FALSE
    /\ searchHistory \in {<<>>, EarlierSearches}
    /\ searchCalls = [slot \in 1..MaxInFlight |-> IdleCall]

NextHistory ==
    \/ \E v \in HistoryQueries : TypeQuery(v)
    \/ SubmitSearch
    \/ \E i \in HistoryButtons : SearchFromHistory(i)
    \/ TryAnotherSearch
    \/ \E slot \in 1..MaxInFlight : AskGETServe(slot)
    \/ \E slot \in 1..MaxInFlight : SearchRequestLost(slot)
    \/ \E slot \in 1..MaxInFlight : HandleSearchResume(slot)

SpecHistory == InitHistory /\ [][NextHistory]_vars

\* ------------------------------------------------- requests that time out

\* The client of the call in progress times out and drops its request.
\* The routes pass no signal to their fetch: the call goes on.
ClientTimeout ==
    /\ apiCall.phase \in {"route", "backend"}
    /\ ~callerTimedOut
    /\ callerTimedOut' = TRUE
    /\ UNCHANGED <<apiVars, blueprintVars, askPageVars, writerVars, chunkerVars, workflowVars, uploadVars, queueVars, unifiedVars>>

\* The route's response to a request its client has dropped reaches no one.
ResponseDropped ==
    /\ apiCall.phase = "page"
    /\ callerTimedOut
    /\ callerTimedOut' = FALSE
    /\ apiCall' = IdleCall
    /\ apiSent' = NoBody
    /\ backendTrace' = NoTrace
    /\ UNCHANGED <<store, blueprintVars, askPageVars, writerVars, chunkerVars, workflowVars, uploadVars, queueVars, unifiedVars>>

InitTimeout == AtRest /\ store \in PageStores

NextTimeout ==
    \/ \E body \in AskGETRequests : ApiRequest(body)
    \/ \E body \in ProcessBodies : ApiRequest(body)
    \/ ApiReceive
    \/ ApiResume
    \/ ApiDone
    \/ ClientTimeout
    \/ ResponseDropped

SpecTimeout == InitTimeout /\ [][NextTimeout]_vars

\* ------------------------------------------------- workflow analysis page

\* What the workflow page leaves alone.
outsideWorkflow == <<blueprintVars, apiVars, askPageVars, writerVars, chunkerVars, callerVars, uploadVars, queueVars, unifiedVars>>

\* The example of the "Try Example" button, as a short text.
ExampleContent == <<"a", "b">>

\* Mutant of BlueprintOf: the page takes the steps in reverse order.
BlueprintOf_Reversed(data) ==
    IF "blueprint" \in DOMAIN data
    THEN [i \in 1..Len(data.blueprint) |-> data.blueprint[Len(data.blueprint) + 1 - i]]
    ELSE <<>>

\* data.blueprint || []
BlueprintOf(data) == IF "blueprint" \in DOMAIN data THEN data.blueprint ELSE <<>>

\* BlueprintTimeline: one card per step, in the order of steps, labelled
\* with the step's own number.
Timeline(steps) ==
    [i \in 1..Len(steps) |->
        [label |-> steps[i].step, tool |-> steps[i].tool,
         action |-> steps[i].action, note |-> steps[i].note]]

\* The textarea's onChange.
SetWorkflowContent(v) ==
    /\ workflowContent' = v
    /\ UNCHANGED <<blueprint, isAnalyzing, analysisCall>>
    /\ UNCHANGED outsideWorkflow

\* handleExampleAnalysis.
HandleExampleAnalysis ==
    /\ workflowContent' = ExampleContent
    /\ UNCHANGED <<blueprint, isAnalyzing, analysisCall>>
    /\ UNCHANGED outsideWorkflow

\* handleAnalyze up to its await fetch; the button is disabled for blank
\* content and while analyzing.
HandleAnalyze ==
    /\ Trim(workflowContent) # <<>>
    /\ ~isAnalyzing
    /\ isAnalyzing' = TRUE
    /\ analysisCall' = [phase |-> "route",
                        body |-> [entry |-> "analyze", step |-> 0, hasContent |-> TRUE,
                                  content |-> workflowContent],
                        resp |-> NoResp]
    /\ UNCHANGED <<workflowContent, blueprint>>
    /\ UNCHANGED outsideWorkflow

\* POST of /api/analyze serves the page's call: the route's code to its
\* fetch, the backend's answer, the route's code after it.  The body of
\* a served call keeps what the backend produced.
AnalyzeServe ==
    /\ analysisCall.phase = "route"
    /\ LET received == AnalyzeReceive(analysisCall) IN
         IF received.phase = "page"
         THEN analysisCall' = [received EXCEPT !.body = [produced |-> <<>>]]
         ELSE \E answer \in BackendAnalyze(received.body) :
                analysisCall' =
                    [AnalyzeRelay(received, answer) EXCEPT
                        !.body = [produced |-> IF answer.ok THEN answer.data.blueprint
                                             ELSE <<>>]]
    /\ UNCHANGED <<workflowContent, blueprint, isAnalyzing>>
    /\ UNCHANGED outsideWorkflow

\* The fetch of the page's call rejects.
AnalyzeRequestLost ==
    /\ analysisCall.phase \in {"route", "page"}
    /\ analysisCall' = [phase |-> "rejected", body |-> NoBody, resp |-> NoResp]
    /\ UNCHANGED <<workflowContent, blueprint, isAnalyzing>>
    /\ UNCHANGED outsideWorkflow

\* handleAnalyze from the fetch's settling to the end of its finally.
HandleAnalyzeResume ==
    /\ analysisCall.phase \in {"page", "rejected"}
    /\ blueprint' = IF analysisCall.phase = "page"
                    THEN BlueprintOf(analysisCall.resp.data) ELSE <<>>
    /\ isAnalyzing' = FALSE
    /\ analysisCall' = IdleCall
    /\ UNCHANGED workflowContent
    /\ UNCHANGED outsideWorkflow

InitWorkflow == AtRest /\ store = {}

NextWorkflow ==
    \/ \E v \in Texts : SetWorkflowContent(v)
    \/ HandleExampleAnalysis
    \/ HandleAnalyze
    \/ AnalyzeServe
    \/ AnalyzeRequestLost
    \/ HandleAnalyzeResume

SpecWorkflow == InitWorkflow /\ [][NextWorkflow]_vars

\* ------------------------------------------------- upload page and widget

\* What the upload page and its widget leave alone.
outsideUpload ==
    <<blueprintVars, apiVars, askPageVars, writerVars, chunkerVars, callerVars, workflowVars,
      queueVars, unifiedVars>>

\* What the user types into the URL and text fields.
UploadInputs == {<<"a">>}

\* What the user types into the title field of the forms: nothing, or
\* white space.
UploadTitles == {"", " "}

\* The names of the files the user drops: with an extension, or only an
\* extension.
FileNames == {<<"a", ".", "t">>, <<".", "t">>}

\* What the user leaves in a file's title field: the field cleared.
FileTitleValues == {<<>>}

FileIds == 1..MaxFiles

\* Mutant of TitleOr: the title is sent as typed.
TitleOr_AsTyped(typed, placeholder) == typed

\* title || placeholder
TitleOr(typed, placeholder) == IF typed = "" THEN placeholder ELSE typed

\* uploadFile.title || uploadFile.file.name
FileTitleOr(typed, name) == IF typed = <<>> THEN name ELSE typed

\* The start of the match of /\.[^/.]+$/ in name, 0 without a match: the
\* last dot, when characters follow it.
ExtensionStart(name) ==
    LET dots == {i \in 1..Len(name) : name[i] = "."} IN
      IF dots = {} THEN 0
      ELSE LET last == CHOOSE i \in dots : \A j \in dots : j <= i IN
             IF last < Len(name) THEN last ELSE 0

\* file.name.replace(/\.[^/.]+$/, "")
StripExtension(name) ==
    IF ExtensionStart(name) = 0 THEN name ELSE SubSeq(name, 1, ExtensionStart(name) - 1)

\* setUrlInput, setTextInput, setTitle of the inputs' onChange.
SetUrlInput(v) ==
    /\ urlInput' = v
    /\ UNCHANGED <<textInput, uploadTitle, isProcessing, uploadSuccess, uploadAlert,
                   uploadCall, files, widgetProcessing, widgetLoop, widgetCall>>
    /\ UNCHANGED <<outsideUpload, store>>

SetTextInput(v) ==
    /\ textInput' = v
    /\ UNCHANGED <<urlInput, uploadTitle, isProcessing, uploadSuccess, uploadAlert,
                   uploadCall, files, widgetProcessing, widgetLoop, widgetCall>>
    /\ UNCHANGED <<outsideUpload, store>>

SetUploadTitle(v) ==
    /\ uploadTitle' = v
    /\ UNCHANGED <<urlInput, textInput, isProcessing, uploadSuccess, uploadAlert,
                   uploadCall, files, widgetProcessing, widgetLoop, widgetCall>>
    /\ UNCHANGED <<outsideUpload, store>>

\* A submit handler that returns early only for an empty input.
SubmitUpload_NoTrim(type, input, placeholder) ==
    /\ ~isProcessing
    /\ input # <<>>
    /\ isProcessing' = TRUE
    /\ uploadCall' = [phase |-> "route",
                      body |-> [entry |-> "upload", multipart |-> FALSE, type |-> type,
                                content |-> input,
                                title |-> TitleOr(uploadTitle, placeholder),
                                endpoint |-> ""],
                      resp |-> NoResp]
    /\ UNCHANGED <<urlInput, textInput, uploadTitle, uploadSuccess, uploadAlert,
                   files, widgetProcessing, widgetLoop, widgetCall>>
    /\ UNCHANGED <<outsideUpload, store>>

\* A submit handler of the page up to its await fetch.
SubmitUpload(type, input, placeholder) ==
    /\ ~isProcessing
    /\ Trim(input) # <<>>
    /\ isProcessing' = TRUE
    /\ uploadCall' = [phase |-> "route",
                      body |-> [entry |-> "upload", multipart |-> FALSE, type |-> type,
                                content |-> input,
                                title |-> TitleOr(uploadTitle, placeholder),
                                endpoint |-> ""],
                      resp |-> NoResp]
    /\ UNCHANGED <<urlInput, textInput, uploadTitle, uploadSuccess, uploadAlert,
                   files, widgetProcessing, widgetLoop, widgetCall>>
    /\ UNCHANGED <<outsideUpload, store>>

HandleUrlSubmit == SubmitUpload("url", urlInput, "Untitled URL Content")

HandleTextSubmit == SubmitUpload("text", textInput, "Untitled Text Content")

\* POST of /api/upload serving a call: the route's code to its fetch, the
\* backend's answer, the route's code after it.  A served call keeps the
\* type of its request.
UploadServed(call) ==
    LET received == UploadReceive(call) IN
      {[UploadRelay(received, answer) EXCEPT !.body = [type |-> call.body.type]] :
          answer \in BackendUpload(received.body)}

\* The fetch of a call rejects.
UploadRejected(call) == [phase |-> "rejected", body |-> [type |-> call.body.type], resp |-> NoResp]

UploadServe ==
    /\ uploadCall.phase = "route"
    /\ uploadCall' \in UploadServed(uploadCall) \cup {UploadRejected(uploadCall)}
    /\ UNCHANGED <<urlInput, textInput, uploadTitle, isProcessing, uploadSuccess,
                   uploadAlert, files, widgetProcessing, widgetLoop, widgetCall>>
    /\ UNCHANGED <<outsideUpload, store>>

\* result.success
UploadSucceeded(call) ==
    /\ call.phase = "page"
    /\ "success" \in DOMAIN call.resp.data
    /\ call.resp.data.success

\* A submit handler from the fetch's settling on: the success message and
\* the cleared fields, or the alert of its catch.
HandleSubmitResume ==
    /\ uploadCall.phase \in {"page", "rejected"}
    /\ uploadCall' = IdleCall
    /\ IF UploadSucceeded(uploadCall)
       THEN /\ uploadSuccess' = uploadCall.resp.data.title
            /\ urlInput' = IF uploadCall.body.type = "url" THEN <<>> ELSE urlInput
            /\ textInput' = IF uploadCall.body.type = "text" THEN <<>> ELSE textInput
            /\ uploadTitle' = ""
            /\ isProcessing' = FALSE
            /\ UNCHANGED uploadAlert
       ELSE /\ uploadAlert' = "Upload failed"
            /\ UNCHANGED <<uploadSuccess, urlInput, textInput, uploadTitle, isProcessing>>
    /\ UNCHANGED <<files, widgetProcessing, widgetLoop, widgetCall>>
    /\ UNCHANGED <<outsideUpload, store>>

\* The user dismisses the alert; the handler's finally runs.
DismissUploadAlert ==
    /\ uploadAlert # ""
    /\ uploadAlert' = ""
    /\ isProcessing' = FALSE
    /\ UNCHANGED <<urlInput, textInput, uploadTitle, uploadSuccess, uploadCall,
                   files, widgetProcessing, widgetLoop, widgetCall>>
    /\ UNCHANGED <<outsideUpload, store>>

\* What the widget leaves alone.
outsideWidget ==
    <<blueprintVars, apiVars, askPageVars, writerVars, chunkerVars, callerVars, workflowVars,
      store, urlInput, textInput, uploadTitle, isProcessing, uploadSuccess, uploadAlert,
      uploadCall, unifiedVars>>

\* onDrop: the file is listed under its name without extension, with an
\* id of its own (Math.random); quota bounds the files dropped in all.
OnDrop(name, quota) ==
    /\ nextFileId <= quota
    /\ files' = Append(files, [id |-> nextFileId, name |-> name,
                               title |-> StripExtension(name), status |-> "pending",
                               progress |-> 0])
    /\ nextFileId' = nextFileId + 1
    /\ UNCHANGED <<widgetProcessing, widgetLoop, widgetCall, timers, sentLog, removedIds>>
    /\ UNCHANGED outsideWidget

\* files.map(f => f.id === id ? change(f) : f)
MapFile(fs, id, field, value) ==
    [k \in 1..Len(fs) |-> IF fs[k].id = id THEN [fs[k] EXCEPT ![field] = value] ELSE fs[k]]

\* files.map(f => f.id === id ? { ...f, status, progress } : f)
SetStatus(fs, id, status, progress) ==
    MapFile(MapFile(fs, id, "status", status), id, "progress", progress)

\* updateFileTitle: the title field is enabled for a pending file.
UpdateFileTitle(k, v) ==
    /\ k \in 1..Len(files)
    /\ files[k].status = "pending"
    /\ files' = MapFile(files, files[k].id, "title", v)
    /\ UNCHANGED <<widgetProcessing, widgetLoop, widgetCall, nextFileId, timers, sentLog,
                   removedIds>>
    /\ UNCHANGED outsideWidget

\* removeFile: the button is shown for a pending file.
RemoveFile(k) ==
    /\ k \in 1..Len(files)
    /\ files[k].status = "pending"
    /\ files' = SelectSeq(files, LAMBDA f : f.id # files[k].id)
    /\ removedIds' = removedIds \cup {files[k].id}
    /\ UNCHANGED <<widgetProcessing, widgetLoop, widgetCall, nextFileId, timers, sentLog>>
    /\ UNCHANGED outsideWidget

\* Mutant of NextPending: the loop takes every file of its snapshot,
\* whatever its status.
NextPending_AnyStatus(snapshot, pos) == IF pos <= Len(snapshot) THEN pos ELSE 0

\* The first pending file of the loop's snapshot from position pos on, 0
\* when there is none.
NextPending(snapshot, pos) ==
    LET ks == {k \in pos..Len(snapshot) : snapshot[k].status = "pending"} IN
      IF ks = {} THEN 0 ELSE CHOOSE k \in ks : \A j \in ks : k <= j

\* The loop of processFiles from position pos of its snapshot to its next
\* await fetch, or to its end: fs and ts are the files and the running
\* timers the loop goes on from.
LoopFrom(snapshot, pos, fs, ts) ==
    LET k == NextPending(snapshot, pos) IN
      IF k = 0
      THEN /\ widgetProcessing' = FALSE
           /\ widgetLoop' = NoLoop
           /\ widgetCall' = IdleCall
           /\ files' = fs
           /\ timers' = ts
           /\ UNCHANGED sentLog
      ELSE /\ widgetProcessing' = TRUE
           /\ widgetLoop' = [snapshot |-> snapshot, pos |-> k]
           /\ widgetCall' = [phase |-> "route",
                             body |-> [entry |-> "upload", multipart |-> TRUE,
                                       type |-> "file", content |-> snapshot[k].name,
                                       title |-> FileTitleOr(snapshot[k].title,
                                                             snapshot[k].name),
                                       endpoint |-> ""],
                             resp |-> NoResp]
           /\ files' = SetStatus(fs, snapshot[k].id, "uploading", 10)
           /\ timers' = ts \cup {snapshot[k].id}
           /\ sentLog' = Append(sentLog, snapshot[k].id)

\* Mutant of ProcessFiles: the process button is not disabled while a run
\* is in progress.
ProcessFiles_NotDisabled ==
    /\ \E k \in 1..Len(files) : files[k].status = "pending"
    /\ LoopFrom(files, 1, files, timers)
    /\ UNCHANGED <<nextFileId, removedIds>>
    /\ UNCHANGED outsideWidget

\* processFiles up to its first await fetch: the loop runs over the files
\* of the render the button was clicked in.
ProcessFiles ==
    /\ ~widgetProcessing
    /\ \E k \in 1..Len(files) : files[k].status = "pending"
    /\ LoopFrom(files, 1, files, timers)
    /\ UNCHANGED <<nextFileId, removedIds>>
    /\ UNCHANGED outsideWidget

WidgetServe ==
    /\ widgetCall.phase = "route"
    /\ widgetCall' \in UploadServed(widgetCall) \cup {UploadRejected(widgetCall)}
    /\ UNCHANGED <<files, widgetProcessing, widgetLoop, nextFileId, timers, sentLog,
                   removedIds>>
    /\ UNCHANGED outsideWidget

\* The file the loop of processFiles is at.
LoopFile == widgetLoop.snapshot[widgetLoop.pos].id

\* processFiles from a fetch's settling on.  A rejected fetch goes to the
\* catch, which leaves the interval running; a response clears the
\* interval, then goes to the catch when it is not ok, and to the await
\* of response.json() otherwise.
ProcessFilesResume ==
    /\ widgetCall.phase \in {"page", "rejected"}
    /\ IF widgetCall.phase = "rejected"
       THEN LoopFrom(widgetLoop.snapshot, widgetLoop.pos + 1,
                     SetStatus(files, LoopFile, "error", 0), timers)
       ELSE IF ~ResOk(widgetCall.resp)
       THEN LoopFrom(widgetLoop.snapshot, widgetLoop.pos + 1,
                     SetStatus(files, LoopFile, "error", 0), timers \ {LoopFile})
       ELSE /\ files' = SetStatus(files, LoopFile, "processing", 95)
            /\ timers' = timers \ {LoopFile}
            /\ widgetCall' = [widgetCall EXCEPT !.phase = "json"]
            /\ UNCHANGED <<widgetProcessing, widgetLoop, sentLog>>
    /\ UNCHANGED <<nextFileId, removedIds>>
    /\ UNCHANGED outsideWidget

\* Mutant of ProcessFilesParsed: a failure ends the run.
ProcessFilesParsed_StopsOnFailure(parsed) ==
    /\ widgetCall.phase = "json"
    /\ LoopFrom(widgetLoop.snapshot,
                IF parsed THEN widgetLoop.pos + 1 ELSE Len(widgetLoop.snapshot) + 1,
                SetStatus(files, LoopFile, IF parsed THEN "complete" ELSE "error",
                          IF parsed THEN 100 ELSE 0),
                timers)
    /\ UNCHANGED <<nextFileId, removedIds>>
    /\ UNCHANGED outsideWidget

\* processFiles from the settling of response.json() to its next await
\* fetch, or to its end.
ProcessFilesParsed(parsed) ==
    /\ widgetCall.phase = "json"
    /\ LoopFrom(widgetLoop.snapshot, widgetLoop.pos + 1,
                SetStatus(files, LoopFile, IF parsed THEN "complete" ELSE "error",
                          IF parsed THEN 100 ELSE 0),
                timers)
    /\ UNCHANGED <<nextFileId, removedIds>>
    /\ UNCHANGED outsideWidget

\* The callback of a file's progressInterval.
ProgressTick(id) ==
    /\ id \in timers
    /\ files' = [k \in 1..Len(files) |->
                    IF files[k].id = id /\ files[k].progress < 90
                    THEN [files[k] EXCEPT !.progress = files[k].progress + 10]
                    ELSE files[k]]
    /\ UNCHANGED <<widgetProcessing, widgetLoop, widgetCall, nextFileId, timers, sentLog,
                   removedIds>>
    /\ UNCHANGED outsideWidget

InitUpload == AtRest /\ store = {}

NextUpload ==
    \/ \E v \in UploadInputs : SetUrlInput(v)
    \/ \E v \in UploadInputs : SetTextInput(v)
    \/ \E v \in UploadTitles : SetUploadTitle(v)
    \/ HandleUrlSubmit
    \/ HandleTextSubmit
    \/ UploadServe
    \/ HandleSubmitResume
    \/ DismissUploadAlert
    \/ \E name \in FileNames : OnDrop(name, MaxFiles)
    \/ \E k \in FileIds, v \in FileTitleValues : UpdateFileTitle(k, v)
    \/ \E k \in FileIds : RemoveFile(k)
    \/ ProcessFiles
    \/ WidgetServe
    \/ ProcessFilesResume
    \/ \E parsed \in BOOLEAN : ProcessFilesParsed(parsed)

SpecUpload == InitUpload /\ [][NextUpload]_vars

\* ------------------------------------------------- upload widget on its own

\* The queue of the widget: its files' statuses and progress, its timers
\* and its requests.  Titles are left as onDrop set them.

\* The name of the files the user drops on the widget on its own.
QueuedNames == {<<"a", ".", "t">>}

InitWidget == AtRest /\ store = {}

NextWidget ==
    \/ \E name \in QueuedNames : OnDrop(name, MaxQueued)
    \/ \E k \in 1..MaxQueued : RemoveFile(k)
    \/ ProcessFiles
    \/ WidgetServe
    \/ ProcessFilesResume
    \/ \E parsed \in BOOLEAN : ProcessFilesParsed(parsed)
    \/ \E id \in 1..MaxQueued : ProgressTick(id)

SpecWidget == InitWidget /\ [][NextWidget]_vars

\* The runs of processFiles without the timer callbacks, which change
\* nothing but a file's progress.
NextRuns ==
    \/ \E name \in FileNames : OnDrop(name, MaxQueued)
    \/ \E k \in 1..MaxQueued : RemoveFile(k)
    \/ ProcessFiles
    \/ WidgetServe
    \/ ProcessFilesResume
    \/ \E parsed \in BOOLEAN : ProcessFilesParsed(parsed)

\* The runs where every request sent is answered or rejected, every
\* response.json() settles, and processFiles goes on once they have.
SpecWidgetLive ==
    /\ InitWidget
    /\ [][NextRuns]_vars
    /\ WF_vars(WidgetServe)
    /\ WF_vars(ProcessFilesResume)
    /\ WF_vars(\E parsed \in BOOLEAN : ProcessFilesParsed(parsed))

\* ------------------------------------------------- Chunker

\* The size bound of a chunk, in characters.
ChunkSize == 2

\* Every raw text of at most MaxRawLen characters.
RawTexts == UNION {[1..n -> Chars] : n \in 0..MaxRawLen}

\* The last position up to limit that holds white space (0 when none does).
RECURSIVE LastSpace(_, _)
LastSpace(s, limit) ==
    IF limit = 0 THEN 0
    ELSE IF IsSpace(s[limit]) THEN limit ELSE LastSpace(s, limit - 1)

\* Mutant of Split: a chunk is cut at the size bound wherever that falls,
\* and the character after the cut is dropped, white space or not.
Split_DropsBoundaryChar(s) ==
    IF Len(s) <= ChunkSize THEN <<s, <<>>>>
    ELSE <<SubSeq(s, 1, ChunkSize), SubSeq(s, ChunkSize + 2, Len(s))>>

\* The first chunk of a trimmed text and what is left after it: the text
\* is cut at the last white space that keeps the chunk within the size
\* bound, and inside a word only when there is none.
Split(s) ==
    IF Len(s) <= ChunkSize THEN <<s, <<>>>>
    ELSE LET cut == LastSpace(s, ChunkSize + 1) IN
         IF cut = 0
         THEN <<SubSeq(s, 1, ChunkSize), SubSeq(s, ChunkSize + 1, Len(s))>>
         ELSE <<TrimRight(SubSeq(s, 1, cut - 1)), SubSeq(s, cut + 1, Len(s))>>

\* chunk(rawText): the chunks of a raw text, in order; none for an empty
\* or white-space-only text.
RECURSIVE Chunker(_)
Chunker(raw) ==
    IF Trim(raw) = <<>> THEN <<>>
    ELSE <<Split(Trim(raw))[1]>> \o Chunker(Split(Trim(raw))[2])

\* chunk is called on a raw text.
ChunkText(raw) ==
    /\ rawText' = raw
    /\ chunked' = Chunker(raw)
    /\ UNCHANGED <<blueprintVars, apiVars, askPageVars, writerVars, callerVars, workflowVars, uploadVars, queueVars, unifiedVars>>

InitChunker == AtRest /\ store = {}

NextChunker == \E raw \in RawTexts : ChunkText(raw)

SpecChunker == InitChunker /\ [][NextChunker]_vars

\* ------------------------------------------------- upload page, its forms alone

\* What the user can type into the URL input and the text area.
FormInputs == {<<>>, <<" ">>, <<"a">>}

\* What the user can type into the title input.
FormTitles == {"", "t"}

InitForms == AtRest /\ store = {}

NextForms ==
    \/ \E v \in FormInputs : SetUrlInput(v)
    \/ \E v \in FormInputs : SetTextInput(v)
    \/ \E v \in FormTitles : SetUploadTitle(v)
    \/ HandleUrlSubmit
    \/ HandleTextSubmit
    \/ UploadServe
    \/ HandleSubmitResume
    \/ DismissUploadAlert

SpecForms == InitForms /\ [][NextForms]_vars

\* ------------------------------------------------- Unified page

\* What the Unified page leaves alone.
outsideUnified == <<blueprintVars, apiVars, askPageVars, writerVars, chunkerVars, callerVars, workflowVars, uploadVars, queueVars>>

\* What the user can type into the page's textarea.
UnifiedInputs == {<<" ">>, <<"a">>, <<"b">>}

\* The three tabs of the result card.
TabNames == {"memories", "blueprint", "insights"}

\* Whether a tab has content: result.memories?.length,
\* result.blueprint?.length, result.analysis?.insights?.length.
HasContent(r, tab) ==
    CASE tab = "memories" -> "memories" \in DOMAIN r /\ r.memories # <<>>
      [] tab = "blueprint" -> "blueprint" \in DOMAIN r /\ r.blueprint # <<>>
      [] tab = "insights" -> "analysis" \in DOMAIN r /\ r.analysis.insights # <<>>

\* The tab handleProcess switches to: memories, else blueprint, else the
\* tab that was active.
AutoTab(data, tab) ==
    IF HasContent(data, "memories") THEN "memories"
    ELSE IF HasContent(data, "blueprint") THEN "blueprint"
    ELSE tab

\* The textarea's onChange and the examples' Use buttons.
SetUnifiedInput(v) ==
    /\ unifiedInput' = v
    /\ UNCHANGED <<unifiedResult, unifiedProcessing, activeTab, processCall>>
    /\ UNCHANGED outsideUnified

\* The Tabs' onValueChange: the result card is shown and the tab's
\* trigger is not disabled.
SelectTab(tab) ==
    /\ unifiedResult # NoResult
    /\ ~unifiedProcessing
    /\ HasContent(unifiedResult, tab)
    /\ activeTab' = tab
    /\ UNCHANGED <<unifiedInput, unifiedResult, unifiedProcessing, processCall>>
    /\ UNCHANGED outsideUnified

\* handleProcess up to its await fetch; the button is disabled for blank
\* input and while processing.
HandleProcess ==
    /\ Trim(unifiedInput) # <<>>
    /\ ~unifiedProcessing
    /\ unifiedProcessing' = TRUE
    /\ processCall' = [phase |-> "route",
                       body |-> [entry |-> "process", hasContent |-> TRUE,
                                 content |-> unifiedInput],
                       resp |-> NoResp]
    /\ UNCHANGED <<unifiedInput, unifiedResult, activeTab>>
    /\ UNCHANGED outsideUnified

\* POST of /api/echoes-process serves the page's call: the route's code
\* to its fetch, the backend's answer, the route's code after it.
ProcessServe ==
    /\ processCall.phase = "route"
    /\ LET received == ProcessReceive(processCall) IN
         IF received.phase = "page"
         THEN processCall' = received
         ELSE \E answer \in BackendProcess(received.body, store) :
                processCall' = ProcessRelay(received, answer)
    /\ UNCHANGED <<unifiedInput, unifiedResult, unifiedProcessing, activeTab>>
    /\ UNCHANGED outsideUnified

\* The fetch of the page's call rejects.
ProcessRequestLost ==
    /\ processCall.phase \in {"route", "page"}
    /\ processCall' = [phase |-> "rejected", body |-> NoBody, resp |-> NoResp]
    /\ UNCHANGED <<unifiedInput, unifiedResult, unifiedProcessing, activeTab>>
    /\ UNCHANGED outsideUnified

\* handleProcess from the fetch's settling to the end of its finally.
HandleProcessResume ==
    /\ processCall.phase \in {"page", "rejected"}
    /\ IF processCall.phase = "page"
       THEN /\ unifiedResult' = processCall.resp.data
            /\ activeTab' = AutoTab(processCall.resp.data, activeTab)
       ELSE /\ unifiedResult' = NoResult
            /\ UNCHANGED activeTab
    /\ unifiedProcessing' = FALSE
    /\ processCall' = IdleCall
    /\ UNCHANGED unifiedInput
    /\ UNCHANGED outsideUnified

InitUnified == AtRest /\ store \in PageStores

NextUnified ==
    \/ \E v \in UnifiedInputs : SetUnifiedInput(v)
    \/ \E tab \in TabNames : SelectTab(tab)
    \/ HandleProcess
    \/ ProcessServe
    \/ ProcessRequestLost
    \/ HandleProcessResume

SpecUnified == InitUnified /\ [][NextUnified]_vars

\* ------------------------------------------------- process requests

InitProcess == AtRest /\ store \in PageStores

NextProcess ==
    \/ \E body \in ProcessBodies : ApiRequest(body)
    \/ ApiReceive
    \/ ApiResume
    \/ ApiDone

SpecProcess == InitProcess /\ [][NextProcess]_vars

\* ------------------------------------------------- Vector Store writes

\* What a writer stores under an id: one text with the time it was written.
UpsertChunks ==
    {Chunk(id, <<"a">>, 1) : id \in ChunkIds} \cup {Chunk(id, <<"b">>, 2) : id \in ChunkIds}

\* The arguments of upsert(chunks): one chunk, or two under different ids.
Batches ==
    {<<c>> : c \in UpsertChunks}
        \cup {<<pair[1], pair[2]>> :
                pair \in {p \in UpsertChunks \X UpsertChunks : p[1].id # p[2].id}}

\* Mutant of Upsert: the text is replaced, the rest of the old chunk is kept.
Upsert_MergesFields(chunks, chunk) ==
    {c \in chunks : c.id # chunk.id}
        \cup (IF \E c \in chunks : c.id = chunk.id
              THEN {[c EXCEPT !.text = chunk.text] : c \in {x \in chunks : x.id = chunk.id}}
              ELSE {chunk})

\* The store after upsert applied one chunk: the chunk replaces what its id held.
Upsert(chunks, chunk) == {c \in chunks : c.id # chunk.id} \cup {chunk}

\* A writer calls upsert(batch).
UpsertCall(w, batch) ==
    /\ upserts[w] = <<>>
    /\ upserts' = [upserts EXCEPT ![w] = batch]
    /\ UNCHANGED <<lastUpsert, store>>
    /\ UNCHANGED <<outsideWriters, apiCall, apiSent, backendTrace>>

\* A writer's upsert applies its next chunk, atomically.
UpsertApply(w) ==
    /\ upserts[w] # <<>>
    /\ store' = Upsert(store, Head(upserts[w]))
    /\ lastUpsert' = [lastUpsert EXCEPT ![Head(upserts[w]).id] = Head(upserts[w])]
    /\ upserts' = [upserts EXCEPT ![w] = Tail(upserts[w])]
    /\ UNCHANGED <<outsideWriters, apiCall, apiSent, backendTrace>>

InitStore == AtRest /\ store = {}

NextStore ==
    \/ \E w \in Writers, batch \in Batches : UpsertCall(w, batch)
    \/ \E w \in Writers : UpsertApply(w)

SpecStore == InitStore /\ [][NextStore]_vars

\* ------------------------------------------------ claims on the AskPage

\* The result list the AskPage renders (results.length > 0 && !isSearching).
Displayed == IF Len(results) > 0 /\ ~isSearching THEN results ELSE <<>>

\* A list in the ranking order: descending by score, ties by most recent first.
InRankingOrder(list) ==
    \A i, j \in 1..Len(list) :
        i < j => \/ list[i].score > list[j].score
                 \/ /\ list[i].score = list[j].score
                    /\ list[i].timestamp >= list[j].timestamp

\* A list that names no chunk twice.
NoDuplicates(list) ==
    \A i, j \in 1..Len(list) : i # j => list[i].id # list[j].id

\* handleSearch resumes with the route's answer to the call of a slot.
Delivers(slot) ==
    /\ searchCalls[slot].phase = "page"
    /\ searchCalls[slot].resp.status = 200
    /\ searchCalls'[slot].phase = "idle"

\* C7: the results of ask are delivered and displayed in the order produced
\* by search, descending by score with ties broken by the most recent
\* createdAt first: what the page takes from an answered search is exactly
\* the sequence search produced for that query over the store, and the list
\* it renders is in ranking order and names no chunk twice.
C7_ResultsDisplayedInSearchOrder ==
    /\ [][\A slot \in 1..MaxInFlight :
            Delivers(slot) =>
                results' = Search(store, Embed(searchCalls[slot].body.query.value),
                                  DefaultLimit, DefaultThreshold)]_vars
    /\ [](InRankingOrder(Displayed) /\ NoDuplicates(Displayed))

\* The page renders a list in which two results tie on score and the more
\* recent one comes first, followed by a lower-scored or older result.
C7_Witness ==
    /\ Len(Displayed) >= 2
    /\ \E i \in 1..(Len(Displayed) - 1) :
        /\ Displayed[i].score = Displayed[i + 1].score
        /\ Displayed[i].timestamp > Displayed[i + 1].timestamp
    /\ \E i \in 1..(Len(Displayed) - 1) : Displayed[i].score > Displayed[i + 1].score

\* ------------------------------------------- claims on the Vector Store

\* The chunks the store holds under an id.
HeldUnder(id) == {c \in store : c.id = id}

\* C8: after any sequence of upsert calls, concurrent ones included, the
\* store holds exactly one chunk per id that was upserted and none under
\* any other id, and the chunk held under an id is the chunk of the last
\* upsert applied to that id, with that writer's text and no field of
\* another writer's chunk.
C8_OneChunkPerIdLastWriterWins ==
    \A id \in ChunkIds :
        IF lastUpsert[id] = NoChunk
        THEN HeldUnder(id) = {}
        ELSE /\ Cardinality(HeldUnder(id)) = 1
             /\ \A c \in HeldUnder(id) :
                    c.text = lastUpsert[id].text /\ c = lastUpsert[id]

\* Two upsert calls are in progress on the same id, one of them has been
\* applied over a chunk with a different text, and the other is still to come.
C8_Witness ==
    \E id \in ChunkIds :
        /\ \A w \in Writers : \E i \in 1..Len(upserts[w]) : upserts[w][i].id = id
        /\ lastUpsert[id] # NoChunk
        /\ \E w \in Writers : \E i \in 1..Len(upserts[w]) :
              upserts[w][i].id = id /\ upserts[w][i].text # lastUpsert[id].text
        /\ Cardinality(store) >= 2

\* ------------------------------------------------- claims on process

\* The route has answered a process request.
ProcessAnswered ==
    /\ apiCall.phase = "page"
    /\ apiSent # NoBody
    /\ apiSent.entry = "process"

\* The backend classified the input of the answered request.
Classified == backendTrace # NoTrace /\ backendTrace.classified \in ContentTypes

\* What a path produced, and what the response carries for it.
Produced(path) == IF path = "retrieval" THEN backendTrace.memories ELSE backendTrace.steps
Carried(path) ==
    IF path = "retrieval" THEN apiCall.resp.data.memories ELSE apiCall.resp.data.blueprint

\* The insight note of a path's degradation is in analysis.insights.
Noted(path) ==
    \E i \in 1..Len(apiCall.resp.data.analysis.insights) :
        apiCall.resp.data.analysis.insights[i] = DegradationNotes({path})[1]

C10_RoutedByClassification ==
    (ProcessAnswered /\ Classified) =>
        /\ backendTrace.classified = "query" =>
            backendTrace.invoked = {"retrieval"} /\ apiCall.resp.data.blueprint = <<>>
        /\ backendTrace.classified = "content" =>
            backendTrace.invoked = {"blueprint"} /\ apiCall.resp.data.memories = <<>>
        /\ backendTrace.classified = "mixed" =>
            backendTrace.invoked = {"retrieval", "blueprint"}

\* An input classified as content has been answered with blueprint steps
\* and no memories although the store holds chunks that match it.
C10_Witness ==
    /\ ProcessAnswered /\ Classified
    /\ backendTrace.classified = "content"
    /\ backendTrace.failed = {}
    /\ Len(backendTrace.memories) >= 1
    /\ Len(apiCall.resp.data.blueprint) >= 1
    /\ apiCall.resp.data.memories = <<>>

\* ------------------------------------------------- claims on response bodies

\* Confidence is kept in tenths: the values of [0,1].
ConfidenceRange == 0..FullScore

\* C11: every response body of process that carries an analysis field, on
\* success and on failure alike, has analysis.contentType in
\* {query, content, mixed} and analysis.confidence within [0,1].
C11_AnalysisWellFormed ==
    (ProcessAnswered /\ "analysis" \in DOMAIN apiCall.resp.data) =>
        /\ apiCall.resp.data.analysis.contentType \in ContentTypes
        /\ apiCall.resp.data.analysis.confidence \in ConfidenceRange

\* The route has answered a request with a failure status.
FailureAnswered == apiCall.phase = "page" /\ apiCall.resp.status # 200

\* C12: every failure response of every API entrypoint (ask GET/POST,
\* generate, analyze, echoes-process, upload) is a structured error that
\* carries both an error kind and a details string.
C12_FailuresAreStructured ==
    FailureAnswered => {"error", "details"} \subseteq DOMAIN apiCall.resp.data

\* ------------------------------------------- claims on the ask parameters

\* An ask request has been forwarded to the backend.
AskForwarded ==
    /\ apiCall.phase = "backend"
    /\ apiSent # NoBody
    /\ apiSent.entry \in {"askGET", "askPOST"}

\* A parameter as the backend receives it: GET forwards strings, POST the
\* body's own fields.
Forwarded(field) ==
    IF apiCall.body.entry = "askGET"
    THEN Given(IF field = "limit" THEN apiCall.body.limit ELSE apiCall.body.threshold)
    ELSE IF field = "limit" THEN apiCall.body.limit ELSE apiCall.body.threshold

\* A parameter as the client sent it.
Sent(field) == IF field = "limit" THEN apiSent.limit ELSE apiSent.threshold

\* The default of a parameter.
DefaultOf(field) == IF field = "limit" THEN "5" ELSE "0.3"

\* A parameter the client left out, or sent empty.
Omitted(param) == ~param.given \/ param.value = ""

\* C13 as stated: an ask request that omits limit and/or threshold is
\* forwarded to the search backend with limit=5 and threshold=0.3 for the
\* omitted parameter, and a supplied limit or threshold is forwarded unchanged.
C13_DefaultsForwarded ==
    AskForwarded =>
        \A field \in {"limit", "threshold"} :
            Forwarded(field) = IF Sent(field).given THEN Sent(field)
                               ELSE Given(DefaultOf(field))

\* C13 amended: an ask GET request that omits limit and/or threshold, or
\* sends it empty, is forwarded with limit=5 and threshold=0.3 for that
\* parameter and a supplied value is forwarded unchanged; an ask POST
\* request is forwarded as it is, an omitted parameter staying omitted.
C13_DefaultsForwardedByGET ==
    AskForwarded =>
        \A field \in {"limit", "threshold"} :
            IF apiSent.entry = "askGET"
            THEN Forwarded(field) = IF Omitted(Sent(field)) THEN Given(DefaultOf(field))
                                    ELSE Sent(field)
            ELSE Forwarded(field) = Sent(field)

\* A GET request without limit and with a threshold of its own has been
\* forwarded with limit 5 and that threshold.
C13_Witness ==
    /\ AskForwarded
    /\ apiSent.entry = "askGET"
    /\ ~apiSent.limit.given
    /\ apiSent.threshold = Given("0.6")
    /\ apiCall.body.limit = "5"
    /\ apiCall.body.threshold = "0.6"

\* ------------------------------------------- claims on workflow analysis

\* A workflow analysis request (a body without step) with blank content.
BlankWorkflowRequest ==
    /\ apiSent # NoBody
    /\ apiSent.entry = "analyze"
    /\ apiSent.step = 0
    /\ ContentBlank(apiSent)

\* C14: analyzeWorkflow on empty content yields an empty BlueprintStep
\* sequence as a successful outcome, not an error, and does so without
\* invoking the backend or the generation provider.
C14_EmptyContentYieldsEmptyBlueprint ==
    BlankWorkflowRequest =>
        /\ apiCall.phase # "backend"
        /\ apiCall.phase = "page" =>
            /\ apiCall.resp.status = 200
            /\ "blueprint" \in DOMAIN apiCall.resp.data
            /\ apiCall.resp.data.blueprint = <<>>

\* ------------------------------------------- claims on provider failures

\* The route has answered the search of a slot with a failure.
SearchFailed(slot) ==
    searchCalls[slot].phase = "page" /\ searchCalls[slot].resp.status # 200

\* The page presents the outcome of a search that found nothing.
NoResultsFound == Len(results) = 0 /\ query # <<>> /\ ~isSearching

\* C15: a failed call to an external provider is retried with a bounded
\* number of attempts (at most 3) before an error is surfaced to the
\* caller: the number of attempts never exceeds the bound, the error is
\* surfaced only after the attempts are exhausted, and a failure is never
\* turned into a silent default result: the caller of a failed search is
\* not left with the outcome of a search that found nothing.
C15_BoundedRetriesNoSilentDefault ==
    /\ [](\A slot \in 1..MaxInFlight :
            searchCalls[slot].phase = "backend" => searchCalls[slot].resp.attempts < MaxAttempts)
    /\ [][\A slot \in 1..MaxInFlight :
            (searchCalls[slot].phase = "backend" /\ SearchFailed(slot)')
                => searchCalls[slot].resp.attempts + 1 = MaxAttempts]_vars
    /\ [][\A slot \in 1..MaxInFlight :
            (SearchFailed(slot) /\ searchCalls'[slot].phase = "idle") => ~NoResultsFound']_vars

\* ------------------------------------------- claims on the Chunker

\* The chunks, in order, make up the text but for white space between
\* them and at the two ends.
RECURSIVE Recovers(_, _)
Recovers(raw, cs) ==
    IF cs = <<>> THEN Trim(raw) = <<>>
    ELSE LET rest == TrimLeft(raw) IN
         /\ Len(Head(cs)) <= Len(rest)
         /\ SubSeq(rest, 1, Len(Head(cs))) = Head(cs)
         /\ Recovers(SubSeq(rest, Len(Head(cs)) + 1, Len(rest)), Tail(cs))

\* Every chunk is non-empty after trimming and within the size bound.
ChunksWellFormed ==
    \A i \in 1..Len(chunked) : Trim(chunked[i]) # <<>> /\ Len(chunked[i]) <= ChunkSize

\* C16 as stated: for every non-empty raw text, chunk returns a non-empty
\* sequence of chunks, each non-empty after trimming and within the size
\* bound, whose concatenation recovers the input modulo chunk-boundary
\* white space, also for non-empty inputs that consist only of white space.
C16_NonEmptyTextYieldsChunks ==
    rawText # <<>> =>
        /\ chunked # <<>>
        /\ ChunksWellFormed
        /\ Recovers(rawText, chunked)

\* C16 amended: for every raw text that is non-empty after trimming, chunk
\* returns a non-empty sequence of chunks; for every raw text, empty and
\* white-space-only ones included, each chunk is non-empty after trimming
\* and within the size bound, and the chunks recover the input modulo
\* chunk-boundary white space; an empty or white-space-only text yields
\* the empty sequence.
C16_NonBlankTextYieldsChunks ==
    /\ (Trim(rawText) # <<>>) <=> (chunked # <<>>)
    /\ ChunksWellFormed
    /\ Recovers(rawText, chunked)

\* A text with white space at its ends and between two words has been cut
\* into more than one chunk.
C16_Witness ==
    /\ Len(chunked) >= 2
    /\ IsSpace(rawText[1])
    /\ Len(rawText) > Len(chunked[1]) + Len(chunked[2]) + 1

\* ------------------------------------------- claims on timeouts

\* A response that tells its caller of a timeout.
IsTimeoutError(resp) ==
    /\ resp.status # 200
    /\ "error" \in DOMAIN resp.data
    /\ resp.data.error = "timeout"

\* C17: a caller-initiated timeout on ask or process aborts the
\* outstanding backend or provider call and the caller receives a typed
\* timeout error: after the timeout no call of that request remains in
\* flight at the backend, and what the request is answered with is the
\* timeout error, never a partial or late result.
C17_TimeoutAbortsTheCall ==
    callerTimedOut =>
        /\ apiCall.phase # "backend"
        /\ apiCall.phase = "page" => IsTimeoutError(apiCall.resp)

\* ------------------------------------------- claims on the held prompts

\* C18: whenever a FinalPrompt is held in a reconstruction session, it was
\* produced by a Stage 2 call whose input was the ReversePrompt list that
\* the session holds now, under every interleaving of Stage 1 and Stage 2
\* requests and responses.
C18_FinalPromptFromHeldPrompts ==
    stepTwoPrompt # <<>> => stepTwoPrompt[1].base = stepOnePrompts

\* ------------------------------------------- claims on the timeline

\* The cards the page shows (blueprint.length > 0 && !isAnalyzing).
TimelineShown == IF Len(blueprint) > 0 /\ ~isAnalyzing THEN Timeline(blueprint) ELSE <<>>

\* handleAnalyze resumes with the route's answer to a successful analysis.
AnalysisDelivered ==
    /\ analysisCall.phase = "page"
    /\ analysisCall.resp.status = 200
    /\ analysisCall'.phase = "idle"

\* C19: the blueprint timeline shows the BlueprintStep sequence exactly as
\* produced: what the page takes from an analysis is the sequence the
\* backend produced, the timeline has one card per held step in the same
\* order, none dropped, duplicated or reordered, and the cards are
\* numbered from 1 without gaps.
C19_TimelineShowsStepsAsProduced ==
    /\ [][AnalysisDelivered => blueprint' = analysisCall.body.produced]_vars
    /\ [](/\ Len(TimelineShown) \in {0, Len(blueprint)}
          /\ \A i \in 1..Len(TimelineShown) :
                /\ TimelineShown[i].label = i
                /\ TimelineShown[i].label = blueprint[i].step
                /\ TimelineShown[i].action = blueprint[i].action)

\* The timeline shows more than one step of an analysis.
C19_Witness == Len(TimelineShown) >= 2 /\ workflowContent # <<>>

\* ------------------------------------------- claims on the upload client

\* The client has sent the request of a call and the route has not yet
\* taken it.
UploadSent(call) == call.phase = "route"

\* The placeholder of the form a request of the page came from.
PlaceholderOf(type) ==
    IF type = "url" THEN "Untitled URL Content" ELSE "Untitled Text Content"

\* C20: every upload request sent by the client (file, URL or pasted
\* text) carries a non-empty title: a request of a form carries the typed
\* title, or the form's placeholder when none was typed, and a request of
\* the widget carries the file's title, or the file's name when the title
\* is empty.
C20_UploadsCarryATitle ==
    /\ [](UploadSent(uploadCall) => uploadCall.body.title # "")
    /\ [](UploadSent(widgetCall) => widgetCall.body.title # <<>>)
    /\ [][(~UploadSent(uploadCall) /\ UploadSent(uploadCall')) =>
            uploadCall'.body.title =
                IF uploadTitle # "" THEN uploadTitle
                ELSE PlaceholderOf(uploadCall'.body.type)]_vars
    /\ [][(widgetCall' # widgetCall /\ UploadSent(widgetCall')) =>
            LET file == widgetLoop'.snapshot[widgetLoop'.pos] IN
              widgetCall'.body.title =
                  IF file.title # <<>> THEN file.title ELSE file.name]_vars

\* A form's request carries a placeholder while a file's request carries
\* the file's name.
C20_Witness ==
    /\ UploadSent(uploadCall)
    /\ uploadCall.body.title = "Untitled Text Content"
    /\ UploadSent(widgetCall)
    /\ widgetCall.body.title = <<".", "t">>

\* ------------------------------------------- claims on the upload queue

\* The ids of the files listed in fs.
ListedIds(fs) == {fs[k].id : k \in 1..Len(fs)}

\* The file listed in fs under id.
Listed(fs, id) == fs[CHOOSE k \in 1..Len(fs) : fs[k].id = id]

\* The moves of a file's status the upload queue allows.
StatusMoves ==
    {<<"pending", "uploading">>, <<"uploading", "processing">>,
     <<"processing", "complete">>, <<"uploading", "error">>, <<"processing", "error">>}

\* The requests the widget has sent, by file.
TimesSent(id) == Cardinality({k \in 1..Len(sentLog) : sentLog[k] = id})

\* C21: in the upload queue a file's status only moves forward along
\* pending, uploading, processing, complete, or from uploading or
\* processing to error; complete and error are terminal; and no file is
\* sent to the upload endpoint twice.
C21_StatusMovesForwardSentOnce ==
    /\ [][\A id \in ListedIds(files) \cap ListedIds(files') :
            \/ Listed(files', id).status = Listed(files, id).status
            \/ <<Listed(files, id).status, Listed(files', id).status>> \in StatusMoves]_vars
    /\ [](\A k \in 1..Len(sentLog) : TimesSent(sentLog[k]) = 1)

\* One file of the queue has completed and another has failed after a
\* later run of processFiles.
C21_Witness ==
    /\ \E i, j \in 1..Len(files) :
          files[i].status = "complete" /\ files[j].status = "error"
    /\ Len(sentLog) = 2
    /\ ~widgetProcessing

\* C22: once a file's upload has ended its progress no longer changes: a
\* file in status complete shows progress 100 and a file in status error
\* shows progress 0, whatever the interleaving of the progress timer
\* callbacks with the upload's resolution or rejection.
C22_EndedProgressIsFinal ==
    \A k \in 1..Len(files) :
        /\ files[k].status = "complete" => files[k].progress = 100
        /\ files[k].status = "error" => files[k].progress = 0

\* C23: a file the user removed from the upload list while it was pending
\* is never sent to the upload endpoint, also when it is removed while an
\* earlier file of the same run of processFiles is uploading.
C23_RemovedFileNeverSent ==
    \A k \in 1..Len(sentLog) : sentLog[k] \notin removedIds

\* The files of the queue that are uploading or processing.
InUpload == {k \in 1..Len(files) : files[k].status \in {"uploading", "processing"}}

\* C24: at any time at most one file of the upload queue is uploading or
\* processing: processFiles sends the files one after another in list
\* order, so at most one request of the widget is outstanding and the
\* requests of a run follow the order of the list, and no run of
\* processFiles starts while one is in progress.
C24_OneUploadAtATime ==
    /\ [](Cardinality(InUpload) <= 1)
    /\ [](widgetLoop # NoLoop => \A k \in 1..(widgetLoop.pos - 1) :
              widgetLoop.snapshot[k].id \notin ListedIds(files)
              \/ Listed(files, widgetLoop.snapshot[k].id).status # "pending")
    /\ [][widgetLoop # NoLoop /\ widgetLoop' # NoLoop =>
              /\ widgetLoop'.snapshot = widgetLoop.snapshot
              /\ widgetLoop'.pos >= widgetLoop.pos]_vars
    /\ [](widgetLoop # NoLoop <=> widgetProcessing)

\* The second file of a run is uploading after the first has ended.
C24_Witness ==
    /\ Len(files) = 2
    /\ files[1].status \in {"complete", "error"}
    /\ files[2].status = "uploading"

\* The file under id was pending when the running processFiles started.
PendingAtStart(id) ==
    \E k \in 1..Len(widgetLoop.snapshot) :
        widgetLoop.snapshot[k].id = id /\ widgetLoop.snapshot[k].status = "pending"

\* The file under id is listed as complete or error.
Ended(id) ==
    id \in ListedIds(files) /\ Listed(files, id).status \in {"complete", "error"}

\* C25 as stated: if every upload request eventually resolves or rejects,
\* every file that was pending when processFiles started eventually
\* reaches complete or error, and isProcessing eventually returns to
\* false.
C25_EveryPendingFileEnds ==
    /\ \A id \in 1..(MaxQueued + 1) : (PendingAtStart(id) ~> Ended(id))
    /\ widgetProcessing ~> ~widgetProcessing

\* C25 amended: if every upload request eventually resolves or rejects,
\* every file that was pending when processFiles started eventually
\* reaches complete or error unless the user removed it from the list,
\* whatever became of the files before it, and isProcessing eventually
\* returns to false.
C25_EveryKeptFileEnds ==
    /\ \A id \in 1..(MaxQueued + 1) :
          (PendingAtStart(id) ~> (Ended(id) \/ id \in removedIds))
    /\ widgetProcessing ~> ~widgetProcessing

\* A run has ended in which the first file failed and the second
\* completed.
C25_Witness ==
    /\ Len(files) = 2
    /\ files[1].status = "error"
    /\ files[2].status = "complete"
    /\ ~widgetProcessing
    /\ removedIds = {}

\* ------------------------------------------- claims on overlapping searches

\* handleSearch resumes with the response of a slot's call.
Resumes(slot) ==
    /\ searchCalls[slot].phase = "page"
    /\ searchCalls'[slot].phase = "idle"

\* C26: whenever the Ask page shows a result list and reports no search in
\* progress, no search request is still in flight and the results shown
\* are those returned for the most recently submitted query, also when a
\* second search is started before the first has returned, whatever order
\* the responses arrive in.
C26_ShownResultsAreOfLatestSearch ==
    /\ [](Len(Displayed) > 0 => \A slot \in 1..MaxInFlight :
                                    searchCalls[slot].phase = "idle")
    /\ [][\A slot \in 1..MaxInFlight :
            (Resumes(slot) /\ isSearching /\ Len(results') > 0) =>
                searchCalls[slot].body.query.value = query]_vars

\* ------------------------------------------- claims on the search history

\* handleSearch resumes after the fetch of a slot's call has rejected.
ResumesRejected(slot) ==
    /\ searchCalls[slot].phase = "rejected"
    /\ searchCalls'[slot].phase = "idle"

\* C27: after any sequence of searches the search history holds at most 5
\* queries and no duplicate, it is ordered most recent first: a search
\* that returned a response is at its head and the queries behind it keep
\* their order, and a search whose request failed leaves it unchanged.
C27_HistoryBoundedRecentFirst ==
    /\ [](/\ Len(searchHistory) <= 5
          /\ \A i, j \in 1..Len(searchHistory) :
                i # j => searchHistory[i] # searchHistory[j])
    /\ [][\A slot \in 1..MaxInFlight :
            /\ Resumes(slot) =>
                 /\ searchHistory' # <<>>
                 /\ searchHistory'[1] = searchCalls[slot].body.query.value
                 /\ Tail(searchHistory') =
                        Take(Without(searchHistory, searchHistory'[1]), 4)
            /\ ResumesRejected(slot) => searchHistory' = searchHistory]_vars

\* A sixth query has been searched with five in the history: the history
\* holds five queries, the new one at its head, and no longer holds the
\* oldest of the earlier searches.
C27_Witness ==
    /\ Len(searchHistory) = 5
    /\ searchHistory[1] = <<"b", "b">>
    /\ \A i \in 1..5 : searchHistory[i] # <<"b", "a">>
    /\ \A slot \in 1..MaxInFlight : searchCalls[slot].phase = "idle"


\* A process call of the Unified page completes with a response.
ProcessCompletes == processCall.phase = "page" /\ processCall'.phase = "idle"

\* C28: after a process call completes on the Unified page, if one of the
\* three tabs has content then the active tab is one that has content.
C28_ActiveTabHasContent ==
    [][ProcessCompletes =>
          ((\E tab \in TabNames : HasContent(unifiedResult', tab))
              => HasContent(unifiedResult', activeTab'))]_vars


\* A submit handler of the upload page resumes after its fetch settled.
SubmitResumes == uploadCall.phase \in {"page", "rejected"} /\ uploadCall'.phase = "idle"

\* A submit handler of the upload page sends its request.
SubmitSends == uploadCall.phase = "idle" /\ uploadCall'.phase = "route"

\* C29: a failed URL or text upload leaves the URL input, the text input,
\* the title and the success message as they were; a successful upload
\* empties the input it submitted and the title and leaves the other
\* input alone; no request is sent for a blank input; and isProcessing is
\* true exactly from the submission to the end of its handler.
C29_FailedUploadKeepsTheForm ==
    /\ [](isProcessing <=> (uploadCall.phase # "idle" \/ uploadAlert # ""))
    /\ [][/\ (SubmitResumes /\ ~UploadSucceeded(uploadCall))
               => UNCHANGED <<urlInput, textInput, uploadTitle, uploadSuccess>>
          /\ (SubmitResumes /\ UploadSucceeded(uploadCall))
               => /\ uploadTitle' = ""
                  /\ uploadSuccess' # "null"
                  /\ ~isProcessing'
                  /\ IF uploadCall.body.type = "url"
                     THEN urlInput' = <<>> /\ textInput' = textInput
                     ELSE textInput' = <<>> /\ urlInput' = urlInput
          /\ SubmitSends
               => /\ Trim(uploadCall'.body.content) # <<>>
                  /\ uploadCall'.body.content =
                        (IF uploadCall'.body.type = "url" THEN urlInput ELSE textInput)
          /\ (uploadAlert # "" /\ uploadAlert' = "")
               => /\ ~isProcessing'
                  /\ UNCHANGED <<urlInput, textInput, uploadTitle, uploadSuccess>>]_vars

\* C29 witness: after an upload titled "t" succeeded and emptied the form,
\* a second upload with the same input and title has failed, and the form
\* still holds what was submitted.
C29_Witness ==
    /\ uploadAlert = "Upload failed"
    /\ uploadSuccess = "t"
    /\ urlInput = <<"a">>
    /\ textInput = <<" ">>
    /\ uploadTitle = "t"

====
